---- MODULE Spec2Model ----
(***************************************************************************)
(* AudioDecoder (src/audio_decoder.cpp): the facade that plays a track     *)
(* through an external Player process (ffplay) and analyses it through an  *)
(* external Decoder process (ffmpeg) read by a worker thread.              *)
(*                                                                         *)
(* Threads: the caller (UI thread) runs start_decoding, stop_decoding,     *)
(* pause_playback and resume_playback; each start_decoding creates a       *)
(* worker running decode_thread_func.  A step is one access to what the    *)
(* threads share (the atomic flag, the pids, the mutex, the process        *)
(* table), together with the thread-local statements that follow it.       *)
(* Every sleep and every timed wait is a point where the other threads may *)
(* take any number of steps, zero included: a timeout is modelled by the   *)
(* interleaving, never by a clock.                                         *)
(***************************************************************************)
EXTENDS Integers, Sequences, FiniteSets, TLC

(* ---- bounds of the model ---- *)
\* number of worker threads start_decoding may create in one run
MaxStarts == 2
\* number of processes created in one run: no fork() is made beyond it
MaxProcs == 5
\* the workers read data only while the buffer holds fewer levels than this
MaxPush == 1
\* number of calls the caller makes in one run
MaxCalls == 3
\* number of processes that exit on their own in one run
MaxExits == 2
\* number of faults in one run: a pipe(), a fork() or a thread creation
\* that fails, a child that does not exit on SIGTERM
MaxFaults == 1
\* number of chunks a worker hands to process_pcm_data where they are counted
MaxChunks == 202
\* the counts a caller asks get_waveform_samples for are 0..MaxCount, the
\* default and the one the monitor asks for
MaxCount == 3
\* besides the chunks of ChunkSize samples, every chunk of 1..MaxLen samples
MaxLen == 2
\* a media URL has 1..MaxUrlLen characters
MaxUrlLen == 4
\* number of samples a worker reads where they are counted
MaxSamples == 10000

(* ---- program constants ---- *)
\* stop_decoding: for (int i = 0; i < 20; ++i) around waitpid(.., WNOHANG)
MaxPolls == 20
\* AudioDecoder::MAX_SAMPLES
MAX_SAMPLES == 200

NoPid == -1
\* a URL is a sequence of characters; "a" and "b" are URLs of one character
NoUrl == <<>>
Urls == {NoUrl, <<"a">>, <<"b">>}
Tokens == {"", "t"}
\* samples are normalised by 32768.0; levels and the rms of a chunk are kept
\* in units of 1/32768, so that FullLevel is 1.0
FullLevel == 32768
Levels == {FullLevel}
\* the range of int16_t
INT16_MIN == -32768
INT16_MAX == 32767
\* pcm_buffer.size() >= 4410: the size of the chunks handed to process_pcm_data
ChunkSize == 4410
\* char read_buffer[4096] holds at most 2048 samples
ReadMax == 2048
NoSignal == <<>>
Free == <<"free", 0>>

VARIABLES
    \* AudioDecoder's fields
    decoding_active, decode_thread, samples_mutex, waveform_samples,
    current_url, current_token, current_level,
    playback_pid, waveform_pid, is_paused,
    \* the operating system's process table: pid p is procs[p]
    procs,
    \* the worker threads: position and locals of decode_thread_func
    wk,
    \* the caller: position, arguments and locals of the running call
    cpc, call, was_active, poll_i, flag,
    \* what the last call returned, and the signal the caller's last step sent
    ret, sig,
    \* what the run may still do: calls, exits of a process on its own, failures
    ncalls, nexits, nfaults,
    \* Waveform's fields: the view's rolling buffer and its width in columns
    samples, width,
    \* PlexClient's playback flag, and the position of the UI thread inside a call
    \* on the client
    is_playing, ppc,
    \* PlexClient's position in the track (ms), the time playback started (0: not
    \* set) and the track; PlayerView's copy of the playback state and its track
    \* list; the steady clock (ms)
    position, playback_start_time, current_track, playback_state, browse_tracks, now

vars == <<decoding_active, decode_thread, samples_mutex, waveform_samples,
          current_url, current_token, current_level,
          playback_pid, waveform_pid, is_paused, procs, wk,
          cpc, call, was_active, poll_i, flag, ret, sig, ncalls, nexits, nfaults,
          samples, width, is_playing, ppc,
          position, playback_start_time, current_track, playback_state, browse_tracks, now>>

\* where playback is in time, as the client and the view see it
timeline == <<position, playback_start_time, current_track, playback_state,
              browse_tracks, now>>

\* what the player view and the client keep beside the decoder
ui == <<samples, width, is_playing, ppc, timeline>>

facade == <<decoding_active, decode_thread, samples_mutex, waveform_samples,
            current_url, current_token, current_level,
            playback_pid, waveform_pid, is_paused>>

(***************************************************************************)
(* The process table.  st: "run" (running), "stop" (suspended by SIGSTOP), *)
(* "zombie" (exited, not yet waited for), "reaped" (waited for: the pid    *)
(* no longer names a child).  status is what waitpid reports of a Decoder  *)
(* ("exit0", "exit1": WIFEXITED with code 0 or not; "signal":              *)
(* WIFSIGNALED); the code never reads the status of a Player.              *)
(***************************************************************************)
Pids == 1..Len(procs)
IsChild(p) == p \in Pids /\ procs[p].st # "reaped"
Alive(p) == p \in Pids /\ procs[p].st \in {"run", "stop"}
Zombies == {p \in Pids : procs[p].st = "zombie"}
LiveOf(k) == {p \in Pids : procs[p].kind = k /\ Alive(p)}

NewProc(k, w, u, t) ==
    [kind |-> k, sess |-> w, st |-> "run", status |-> "none", url |-> u, tok |-> t]

\* fork() + execvp(): the table with one more process, whose pid is the new length
Fork(ps, k, w, u, t) == Append(ps, NewProc(k, w, u, t))
CanFork == Len(procs) < MaxProcs

Exited(ps, p, s) ==
    [ps EXCEPT ![p].st = "zombie",
               ![p].status = IF ps[p].kind = "decoder" THEN s ELSE "none"]

\* kill(pid, sig): the process table the kernel produces.  SIGTERM ends a
\* running process (unless it is stubborn: see Terminate); a suspended
\* process keeps it pending; SIGKILL cannot be caught or ignored; a signal
\* to a zombie or to a pid that names no child changes nothing.
Kill(ps, pid, s) ==
    IF ~(pid \in 1..Len(ps)) \/ ps[pid].st \in {"zombie", "reaped"} THEN ps
    ELSE CASE s = "SIGKILL" -> Exited(ps, pid, "signal")
           [] s = "SIGTERM" -> IF ps[pid].st = "run" THEN Exited(ps, pid, "signal") ELSE ps
           [] s = "SIGSTOP" -> [ps EXCEPT ![pid].st = "stop"]
           [] s = "SIGCONT" -> [ps EXCEPT ![pid].st = "run"]
           [] OTHER -> ps

\* waitpid(pid, &status, options): the possible outcomes, each [r, reap]:
\* r is the return value (0: WNOHANG and no child has exited; -1: ECHILD),
\* reap the pid that was waited for (0: none).  pid = -1 waits for any child.
WaitPid(pid) ==
    IF pid > 0
    THEN IF ~IsChild(pid) THEN {[r |-> -1, reap |-> 0]}
         ELSE IF procs[pid].st = "zombie" THEN {[r |-> pid, reap |-> pid]}
         ELSE {[r |-> 0, reap |-> 0]}
    ELSE IF Zombies # {} THEN {[r |-> z, reap |-> z] : z \in Zombies}
         ELSE IF \E p \in Pids : IsChild(p) THEN {[r |-> 0, reap |-> 0]}
         ELSE {[r |-> -1, reap |-> 0]}

Reaped(ps, p) ==
    IF p = 0 THEN ps ELSE [ps EXCEPT ![p].st = "reaped", ![p].status = "none"]

(***************************************************************************)
(* Worker threads.  pc "new" is a thread not yet created, "done" one that  *)
(* has returned from decode_thread_func.                                   *)
(***************************************************************************)
NoWorker == [pc |-> "new", url |-> NoUrl, tok |-> "", rd |-> "none", pipe |-> 0,
             status |-> "none", level |-> 0, pcm |-> <<>>, n |-> 0,
             acc |-> 0, rest |-> 0, k |-> 0]
Returned == [NoWorker EXCEPT !.pc = "done"]

Workers == DOMAIN wk
Running(w) == wk[w].pc \notin {"new", "done"}

\* termed is the pid the call has sent SIGTERM to and has not yet finished with,
\* thread what the call has done with the handle decode_thread
NoCall == [op |-> "none", url |-> NoUrl, tok |-> "", inner |-> FALSE, termed |-> 0,
           thread |-> "none"]

\* the facade as its constructor leaves it, no process, no call made
Constructed ==
    /\ decoding_active = FALSE
    /\ decode_thread = 0
    /\ samples_mutex = Free
    /\ waveform_samples = <<>>
    /\ current_url = NoUrl
    /\ current_token = ""
    /\ current_level = 0
    /\ playback_pid = NoPid
    /\ waveform_pid = NoPid
    /\ is_paused = FALSE
    /\ procs = <<>>
    /\ cpc = "idle"
    /\ call = NoCall
    /\ was_active = FALSE
    /\ poll_i = 0
    /\ flag = FALSE
    /\ ret = "none"
    /\ sig = NoSignal

\* one session per run: the caller starts at most one worker
\* PlayerView's constructor makes a Waveform(80, 10); the client is not playing
DefaultWidth == 80

NoTrack == [id |-> 0, duration_ms |-> 0]

\* PlexClient::Impl and PlaybackState as constructed, no track list loaded
NoTimeline ==
    /\ position = 0
    /\ playback_start_time = 0
    /\ current_track = NoTrack
    /\ playback_state = [playing |-> FALSE, position_ms |-> 0, current_track |-> NoTrack]
    /\ browse_tracks = <<>>
    /\ now = 1

ViewConstructed ==
    /\ NoTimeline
    /\ width = DefaultWidth
    /\ samples = [i \in 1..width |-> 0]
    /\ is_playing = FALSE
    /\ ppc = "idle"

Init ==
    /\ Constructed
    /\ ViewConstructed
    /\ wk = [w \in 1..1 |-> NoWorker]
    /\ ncalls = MaxCalls
    /\ nexits = MaxExits
    /\ nfaults = MaxFaults

\* several sessions per run, no pause; the only failure is a stubborn child
InitSessions ==
    /\ Constructed
    /\ ViewConstructed
    /\ wk = [w \in 1..MaxStarts |-> NoWorker]
    /\ ncalls = MaxCalls
    /\ nexits = 0
    /\ nfaults = MaxFaults

(***************************************************************************)
(* process_pcm_data: the level of a chunk.  The doubles of the code hold   *)
(* the sum of the squares exactly; the model keeps the squares as integers *)
(* (in units of 1/32768^2) and takes the mean and the root rounded down.   *)
(***************************************************************************)
Min(a, b) == IF a < b THEN a ELSE b

Samples == {INT16_MIN, -(FullLevel \div 2), 0, 1, FullLevel \div 2, INT16_MAX}

\* chunks of one repeated sample, and one that alternates the two extremes
Chunks ==
    UNION {[1..n -> Samples] : n \in 1..MaxLen}
    \cup {[i \in 1..ChunkSize |-> s] : s \in Samples}
    \cup {[i \in 1..ChunkSize |-> IF i % 2 = 0 THEN INT16_MAX ELSE INT16_MIN]}

\* sum of (sample * sample) \div n and of (sample * sample) % n over the
\* samples lo..hi: the two parts of sum_squares / pcm_samples.size()
RECURSIVE squares_div(_, _, _, _)
squares_div(pcm_samples, lo, hi, n) ==
    IF lo > hi THEN 0
    ELSE IF lo = hi THEN (pcm_samples[lo] * pcm_samples[lo]) \div n
    ELSE LET mid == (lo + hi) \div 2
         IN  squares_div(pcm_samples, lo, mid, n) + squares_div(pcm_samples, mid + 1, hi, n)

RECURSIVE squares_mod(_, _, _, _)
squares_mod(pcm_samples, lo, hi, n) ==
    IF lo > hi THEN 0
    ELSE IF lo = hi THEN (pcm_samples[lo] * pcm_samples[lo]) % n
    ELSE LET mid == (lo + hi) \div 2
         IN  squares_mod(pcm_samples, lo, mid, n) + squares_mod(pcm_samples, mid + 1, hi, n)

\* sum_squares / pcm_samples.size(), rounded down
mean_square(pcm_samples) ==
    LET n == Len(pcm_samples)
    IN  squares_div(pcm_samples, 1, n, n) + (squares_mod(pcm_samples, 1, n, n) \div n)

\* the largest r in lo..hi with r * r <= x
RECURSIVE sqrt_between(_, _, _)
sqrt_between(x, lo, hi) ==
    IF lo = hi THEN lo
    ELSE LET mid == (lo + hi + 1) \div 2
         IN  IF mid * mid <= x THEN sqrt_between(x, mid, hi)
                               ELSE sqrt_between(x, lo, mid - 1)

\* double rms = std::sqrt(sum_squares / pcm_samples.size());
rms(pcm_samples) == sqrt_between(mean_square(pcm_samples), 0, FullLevel)

\* a level that is not limited to 1.0
level_unclamped(pcm_samples) == rms(pcm_samples) * 2

\* a level that is the rms itself
level_unscaled(pcm_samples) == Min(FullLevel, rms(pcm_samples))

\* a level with a noise floor
level_with_floor(pcm_samples) == Min(FullLevel, rms(pcm_samples) * 2 + 1)

\* float level = static_cast<float>(std::min(1.0, rms * 2.0));
process_pcm_level(pcm_samples) == Min(FullLevel, rms(pcm_samples) * 2)

(***************************************************************************)
(* The getters, as the value a call returns when it holds samples_mutex.   *)
(***************************************************************************)
Zeros(n) == [i \in 1..n |-> 0]

\* the same values, with the zeros after them
get_samples_padded_right(count) ==
    IF waveform_samples = <<>> THEN Zeros(count)
    ELSE LET size == Len(waveform_samples)
             start_idx == IF size > count THEN size - count ELSE 0
             result == [i \in 1..(size - start_idx) |-> waveform_samples[start_idx + i]]
         IN  IF Len(result) < count THEN result \o Zeros(count - Len(result)) ELSE result

get_waveform_samples(count) ==
    IF waveform_samples = <<>> THEN Zeros(count)
    ELSE LET size == Len(waveform_samples)
             start_idx == IF size > count THEN size - count ELSE 0
             result == [i \in 1..(size - start_idx) |-> waveform_samples[start_idx + i]]
         IN  IF Len(result) < count THEN Zeros(count - Len(result)) \o result ELSE result

get_current_level == current_level

is_decoding == decoding_active

(***************************************************************************)
(* The caller.                                                             *)
(***************************************************************************)
Enter(op, u, t) ==
    /\ cpc = "idle"
    /\ ncalls > 0
    /\ ncalls' = ncalls - 1
    /\ call' = [op |-> op, url |-> u, tok |-> t, inner |-> (op = "start" /\ decoding_active),
                termed |-> 0, thread |-> "none"]

\* the call returns r: its locals are gone
Return(r) ==
    /\ cpc' = "idle"
    /\ ret' = r
    /\ was_active' = FALSE
    /\ poll_i' = 0
    /\ flag' = FALSE

\* a failure the run may still suffer
Fault == nfaults > 0 /\ nfaults' = nfaults - 1

\* kill(pid, s) by the caller, not a SIGTERM
Signal(pid, s) ==
    /\ procs' = Kill(procs, pid, s)
    /\ sig' = <<pid, s>>

\* kill(pid, SIGTERM) by the caller: the child exits, or it is stubborn
\* (it handles, ignores or delays the signal) and stays as it is
Terminate(pid) ==
    /\ sig' = <<pid, "SIGTERM">>
    /\ \/ procs' = Kill(procs, pid, "SIGTERM") /\ UNCHANGED nfaults
       \/ Alive(pid) /\ procs[pid].st = "run" /\ Fault /\ UNCHANGED procs

(* ---- stop_decoding ---- *)

\* bool was_active = decoding_active.exchange(false); is_paused = false;
StopExchange ==
    /\ was_active' = decoding_active
    /\ decoding_active' = FALSE
    /\ is_paused' = FALSE
    /\ cpc' = IF decoding_active THEN "stop_pb" ELSE "stop_lock"
    /\ sig' = NoSignal
    /\ UNCHANGED <<decode_thread, samples_mutex, waveform_samples, current_url,
                   current_token, current_level, playback_pid, waveform_pid,
                   procs, wk, poll_i, flag, nexits, nfaults>>

\* void AudioDecoder::stop_decoding(), called by the owner of the facade
stop_decoding ==
    /\ Enter("stop", NoUrl, "")
    /\ ret' = "none"
    /\ StopExchange
    /\ UNCHANGED ui

\* the same, entered from start_decoding
StopInner ==
    /\ cpc = "stop_xchg"
    /\ StopExchange
    /\ UNCHANGED <<call, ret, ncalls, nexits, nfaults>>
    /\ UNCHANGED ui

\* if (playback_pid > 0) { kill(playback_pid, SIGTERM); ...
StopTermPlayer ==
    /\ cpc = "stop_pb"
    /\ IF playback_pid > 0
       THEN /\ Terminate(playback_pid)
            /\ call' = [call EXCEPT !.termed = playback_pid]
            /\ cpc' = "stop_pb_poll"
       ELSE /\ cpc' = "stop_wf"
            /\ sig' = NoSignal
            /\ UNCHANGED <<procs, call, nfaults>>
    /\ poll_i' = 0
    /\ UNCHANGED <<facade, wk, was_active, flag, ret, ncalls, nexits>>
    /\ UNCHANGED ui

\* one turn of for (i < 20): waitpid(playback_pid, nullptr, WNOHANG), then
\* break with the pid cleared, or sleep 100 ms and ++i
StopPollPlayer ==
    /\ cpc = "stop_pb_poll"
    /\ \E o \in WaitPid(playback_pid) :
         /\ procs' = Reaped(procs, o.reap)
         /\ IF o.r = playback_pid \/ o.r = -1
            THEN /\ playback_pid' = NoPid
                 /\ cpc' = "stop_pb_kill"
                 /\ UNCHANGED poll_i
            ELSE /\ poll_i' = poll_i + 1
                 /\ cpc' = IF poll_i + 1 < MaxPolls THEN "stop_pb_poll" ELSE "stop_pb_kill"
                 /\ UNCHANGED playback_pid
    /\ sig' = NoSignal
    /\ UNCHANGED <<decoding_active, decode_thread, samples_mutex, waveform_samples,
                   current_url, current_token, current_level, waveform_pid, is_paused,
                   wk, call, was_active, flag, ret, ncalls, nexits, nfaults>>
    /\ UNCHANGED ui

\* if (playback_pid > 0) { kill(playback_pid, SIGKILL); ...
StopKillPlayer ==
    /\ cpc = "stop_pb_kill"
    /\ IF playback_pid > 0
       THEN /\ Signal(playback_pid, "SIGKILL")
            /\ cpc' = "stop_pb_wait"
       ELSE /\ cpc' = "stop_wf"
            /\ sig' = NoSignal
            /\ UNCHANGED procs
    /\ call' = [call EXCEPT !.termed = 0]
    /\ UNCHANGED <<facade, wk, was_active, poll_i, flag, ret, ncalls, nexits, nfaults>>
    /\ UNCHANGED ui

\* waitpid(playback_pid, nullptr, 0); playback_pid = -1;  The wait blocks
\* while the pid it names is a child that has not exited.
StopWaitPlayer ==
    /\ cpc = "stop_pb_wait"
    /\ \E o \in WaitPid(playback_pid) :
         /\ o.r # 0
         /\ procs' = Reaped(procs, o.reap)
    /\ playback_pid' = NoPid
    /\ cpc' = "stop_wf"
    /\ sig' = NoSignal
    /\ UNCHANGED <<decoding_active, decode_thread, samples_mutex, waveform_samples,
                   current_url, current_token, current_level, waveform_pid, is_paused,
                   wk, call, was_active, poll_i, flag, ret, ncalls, nexits, nfaults>>
    /\ UNCHANGED ui

\* if (waveform_pid > 0) { kill(waveform_pid, SIGTERM); ...
StopTermDecoder ==
    /\ cpc = "stop_wf"
    /\ IF waveform_pid > 0
       THEN /\ Terminate(waveform_pid)
            /\ call' = [call EXCEPT !.termed = waveform_pid]
            /\ cpc' = "stop_wf_poll"
       ELSE /\ cpc' = "stop_join"
            /\ sig' = NoSignal
            /\ UNCHANGED <<procs, call, nfaults>>
    /\ poll_i' = 0
    /\ UNCHANGED <<facade, wk, was_active, flag, ret, ncalls, nexits>>
    /\ UNCHANGED ui

StopPollDecoder ==
    /\ cpc = "stop_wf_poll"
    /\ \E o \in WaitPid(waveform_pid) :
         /\ procs' = Reaped(procs, o.reap)
         /\ IF o.r = waveform_pid \/ o.r = -1
            THEN /\ waveform_pid' = NoPid
                 /\ cpc' = "stop_wf_kill"
                 /\ UNCHANGED poll_i
            ELSE /\ poll_i' = poll_i + 1
                 /\ cpc' = IF poll_i + 1 < MaxPolls THEN "stop_wf_poll" ELSE "stop_wf_kill"
                 /\ UNCHANGED waveform_pid
    /\ sig' = NoSignal
    /\ UNCHANGED <<decoding_active, decode_thread, samples_mutex, waveform_samples,
                   current_url, current_token, current_level, playback_pid, is_paused,
                   wk, call, was_active, flag, ret, ncalls, nexits, nfaults>>
    /\ UNCHANGED ui

StopKillDecoder ==
    /\ cpc = "stop_wf_kill"
    /\ IF waveform_pid > 0
       THEN /\ Signal(waveform_pid, "SIGKILL")
            /\ cpc' = "stop_wf_wait"
       ELSE /\ cpc' = "stop_join"
            /\ sig' = NoSignal
            /\ UNCHANGED procs
    /\ call' = [call EXCEPT !.termed = 0]
    /\ UNCHANGED <<facade, wk, was_active, poll_i, flag, ret, ncalls, nexits, nfaults>>
    /\ UNCHANGED ui

StopWaitDecoder ==
    /\ cpc = "stop_wf_wait"
    /\ \E o \in WaitPid(waveform_pid) :
         /\ o.r # 0
         /\ procs' = Reaped(procs, o.reap)
    /\ waveform_pid' = NoPid
    /\ cpc' = "stop_join"
    /\ sig' = NoSignal
    /\ UNCHANGED <<decoding_active, decode_thread, samples_mutex, waveform_samples,
                   current_url, current_token, current_level, playback_pid, is_paused,
                   wk, call, was_active, poll_i, flag, ret, ncalls, nexits, nfaults>>
    /\ UNCHANGED ui

\* if (decode_thread.joinable()) { while (decode_thread.joinable()) { if
\* (elapsed > 500) { detach(); break; } sleep 10 ms } if (joinable()) join(); }
\* joinable() stays true until join() or detach() is called on the handle,
\* whatever the thread does, so the loop always ends in detach() and the
\* final join() is never reached.
StopJoin ==
    /\ cpc = "stop_join"
    /\ IF decode_thread # 0
       THEN decode_thread' = 0 /\ call' = [call EXCEPT !.thread = "detached"]
       ELSE UNCHANGED <<decode_thread, call>>
    /\ cpc' = "stop_lock"
    /\ sig' = NoSignal
    /\ UNCHANGED <<decoding_active, samples_mutex, waveform_samples, current_url,
                   current_token, current_level, playback_pid, waveform_pid, is_paused,
                   procs, wk, was_active, poll_i, flag, ret, ncalls, nexits, nfaults>>
    /\ UNCHANGED ui

\* a stop that goes on to clear without the lock
StopNoLock ==
    /\ cpc = "stop_lock"
    /\ cpc' = "stop_clear"
    /\ sig' = NoSignal
    /\ UNCHANGED <<decoding_active, decode_thread, samples_mutex, waveform_samples, current_url,
                   current_token, current_level, playback_pid, waveform_pid, is_paused,
                   procs, wk, call, was_active, poll_i, flag, ret, ncalls, nexits, nfaults>>
    /\ UNCHANGED ui

\* std::lock_guard<std::mutex> lock(samples_mutex);
StopLock ==
    /\ cpc = "stop_lock"
    /\ samples_mutex = Free
    /\ samples_mutex' = <<"caller", 0>>
    /\ cpc' = "stop_clear"
    /\ sig' = NoSignal
    /\ UNCHANGED <<decoding_active, decode_thread, waveform_samples, current_url,
                   current_token, current_level, playback_pid, waveform_pid, is_paused,
                   procs, wk, call, was_active, poll_i, flag, ret, ncalls, nexits, nfaults>>
    /\ UNCHANGED ui

\* waveform_samples.clear(); current_level = 0.0f; and the lock is released
StopClear ==
    /\ cpc = "stop_clear"
    /\ waveform_samples' = <<>>
    /\ current_level' = 0
    /\ samples_mutex' = Free
    /\ sig' = NoSignal
    /\ IF call.inner
       THEN /\ cpc' = "start_join"
            /\ was_active' = FALSE
            /\ poll_i' = 0
            /\ UNCHANGED <<ret, flag>>
       ELSE Return("void")
    /\ UNCHANGED <<decoding_active, decode_thread, current_url, current_token,
                   playback_pid, waveform_pid, is_paused, procs, wk, call, ncalls, nexits, nfaults>>
    /\ UNCHANGED ui

(* ---- start_decoding ---- *)

FreeWorkers == {w \in Workers : wk[w].pc = "new"}

\* bool AudioDecoder::start_decoding(audio_url, plex_token):
\* if (decoding_active.load()) { stop_decoding(); }
start_decoding(u, t) ==
    /\ Enter("start", u, t)
    /\ u = NoUrl \/ t = "" \/ FreeWorkers # {}
    /\ ret' = "none"
    /\ sig' = NoSignal
    /\ cpc' = IF decoding_active THEN "stop_xchg" ELSE "start_join"
    /\ UNCHANGED <<facade, procs, wk, was_active, poll_i, flag, nexits, nfaults>>
    /\ UNCHANGED ui

\* if (decode_thread.joinable()) { decoding_active = false;
\* while (decode_thread.joinable()) { if (elapsed > 1000) { detach(); break; }
\* sleep 50 ms } if (joinable()) join(); }: as in stop_decoding, the loop
\* can only end in detach()
StartJoin ==
    /\ cpc = "start_join"
    /\ IF decode_thread # 0
       THEN /\ decoding_active' = FALSE /\ decode_thread' = 0
            /\ call' = [call EXCEPT !.thread = "detached"]
       ELSE UNCHANGED <<decoding_active, decode_thread, call>>
    /\ cpc' = "start_validate"
    /\ sig' = NoSignal
    /\ UNCHANGED <<samples_mutex, waveform_samples, current_url,
                   current_token, current_level, playback_pid, waveform_pid, is_paused,
                   procs, wk, was_active, poll_i, flag, ret, ncalls, nexits, nfaults>>
    /\ UNCHANGED ui

\* start_decoding without its validation of the arguments: every call goes
\* on to create the worker thread
StartUnvalidated ==
    /\ cpc = "start_validate"
    /\ current_url' = call.url
    /\ current_token' = call.tok
    /\ playback_pid' = NoPid
    /\ waveform_pid' = NoPid
    /\ is_paused' = FALSE
    /\ cpc' = "start_thread"
    /\ sig' = NoSignal
    /\ UNCHANGED <<decoding_active, decode_thread, samples_mutex, waveform_samples,
                   current_level, procs, wk, call, ncalls, nexits, nfaults,
                   ret, was_active, poll_i, flag>>
    /\ UNCHANGED ui

\* if (audio_url.empty() || plex_token.empty()) return false;
\* current_url = audio_url; current_token = plex_token;
\* playback_pid = -1; waveform_pid = -1; is_paused = false;
StartValidate ==
    /\ cpc = "start_validate"
    /\ IF call.url = NoUrl \/ call.tok = ""
       THEN /\ Return("false")
            /\ UNCHANGED <<current_url, current_token, playback_pid, waveform_pid,
                           is_paused>>
       ELSE /\ current_url' = call.url
            /\ current_token' = call.tok
            /\ playback_pid' = NoPid
            /\ waveform_pid' = NoPid
            /\ is_paused' = FALSE
            /\ cpc' = "start_thread"
            /\ UNCHANGED <<ret, was_active, poll_i, flag>>
    /\ sig' = NoSignal
    /\ UNCHANGED <<decoding_active, decode_thread, samples_mutex, waveform_samples,
                   current_level, procs, wk, call, ncalls, nexits, nfaults>>
    /\ UNCHANGED ui

\* decoding_active = true; decode_thread = std::thread(decode_thread_func, this);
\* return true;
StartThread ==
    /\ cpc = "start_thread"
    /\ FreeWorkers # {}
    /\ LET w == CHOOSE x \in FreeWorkers : \A y \in FreeWorkers : x <= y IN
         /\ decode_thread' = w
         /\ wk' = [wk EXCEPT ![w].pc = "init"]
    /\ decoding_active' = TRUE
    /\ Return("true")
    /\ sig' = NoSignal
    /\ UNCHANGED <<samples_mutex, waveform_samples, current_url, current_token,
                   current_level, playback_pid, waveform_pid, is_paused,
                   procs, call, ncalls, nexits, nfaults>>
    /\ UNCHANGED ui

\* catch (...) { decoding_active = false; return false; }: the thread could
\* not be created
StartThreadFails ==
    /\ cpc = "start_thread"
    /\ Fault
    /\ decoding_active' = FALSE
    /\ Return("false")
    /\ sig' = NoSignal
    /\ UNCHANGED <<decode_thread, samples_mutex, waveform_samples, current_url,
                   current_token, current_level, playback_pid, waveform_pid, is_paused,
                   procs, wk, call, ncalls, nexits>>
    /\ UNCHANGED ui

(* ---- pause_playback ---- *)

\* if (is_paused) return true; bool paused = false;
\* a pause that does not look at is_paused
PauseAgain ==
    /\ Enter("pause", NoUrl, "")
    /\ cpc' = "pause_wf"
    /\ ret' = "none"
    /\ flag' = FALSE
    /\ sig' = NoSignal
    /\ UNCHANGED <<facade, procs, wk, was_active, poll_i, nexits, nfaults>>
    /\ UNCHANGED ui

pause_playback ==
    /\ Enter("pause", NoUrl, "")
    /\ IF is_paused
       THEN Return("true")
       ELSE /\ cpc' = "pause_wf"
            /\ ret' = "none"
            /\ flag' = FALSE
            /\ UNCHANGED <<was_active, poll_i>>
    /\ sig' = NoSignal
    /\ UNCHANGED <<facade, procs, wk, nexits, nfaults>>
    /\ UNCHANGED ui

\* if (waveform_pid > 0) { kill(waveform_pid, SIGSTOP); paused = true; }
PauseDecoder ==
    /\ cpc = "pause_wf"
    /\ IF waveform_pid > 0
       THEN Signal(waveform_pid, "SIGSTOP") /\ flag' = TRUE
       ELSE sig' = NoSignal /\ UNCHANGED <<procs, flag>>
    /\ cpc' = "pause_pb"
    /\ UNCHANGED <<facade, wk, call, was_active, poll_i, ret, ncalls, nexits, nfaults>>
    /\ UNCHANGED ui

\* a pause that sets is_paused whether or not it sent a signal
PausePlayerSets ==
    /\ cpc = "pause_pb"
    /\ LET paused == flag \/ playback_pid > 0 IN
         /\ IF playback_pid > 0
            THEN Signal(playback_pid, "SIGSTOP")
            ELSE sig' = NoSignal /\ UNCHANGED procs
         /\ is_paused' = TRUE
         /\ Return(IF paused THEN "true" ELSE "false")
    /\ UNCHANGED <<decoding_active, decode_thread, samples_mutex, waveform_samples,
                   current_url, current_token, current_level, playback_pid,
                   waveform_pid, wk, call, ncalls, nexits, nfaults>>
    /\ UNCHANGED ui

\* a pause that resets the rolling buffer as it suspends the Player
PausePlayerResets ==
    /\ cpc = "pause_pb"
    /\ LET paused == flag \/ playback_pid > 0 IN
         /\ IF playback_pid > 0
            THEN Signal(playback_pid, "SIGSTOP")
            ELSE sig' = NoSignal /\ UNCHANGED procs
         /\ is_paused' = IF paused THEN TRUE ELSE is_paused
         /\ Return(IF paused THEN "true" ELSE "false")
    /\ waveform_samples' = <<>>
    /\ current_level' = 0
    /\ UNCHANGED <<decoding_active, decode_thread, samples_mutex,
                   current_url, current_token, playback_pid,
                   waveform_pid, wk, call, ncalls, nexits, nfaults>>
    /\ UNCHANGED ui

\* if (playback_pid > 0) { kill(playback_pid, SIGSTOP); paused = true; }
\* if (paused) { is_paused = true; return true; } return false;
PausePlayer ==
    /\ cpc = "pause_pb"
    /\ LET paused == flag \/ playback_pid > 0 IN
         /\ IF playback_pid > 0
            THEN Signal(playback_pid, "SIGSTOP")
            ELSE sig' = NoSignal /\ UNCHANGED procs
         /\ is_paused' = IF paused THEN TRUE ELSE is_paused
         /\ Return(IF paused THEN "true" ELSE "false")
    /\ UNCHANGED <<decoding_active, decode_thread, samples_mutex, waveform_samples,
                   current_url, current_token, current_level, playback_pid,
                   waveform_pid, wk, call, ncalls, nexits, nfaults>>
    /\ UNCHANGED ui

(* ---- resume_playback ---- *)

\* bool resumed = false;
\* if (playback_pid > 0 && is_paused) { kill(playback_pid, SIGCONT); resumed = true; }
resume_playback ==
    /\ Enter("resume", NoUrl, "")
    /\ IF playback_pid > 0 /\ is_paused
       THEN Signal(playback_pid, "SIGCONT") /\ flag' = TRUE
       ELSE sig' = NoSignal /\ flag' = FALSE /\ UNCHANGED procs
    /\ cpc' = "resume_wf"
    /\ ret' = "none"
    /\ UNCHANGED <<facade, wk, was_active, poll_i, nexits, nfaults>>
    /\ UNCHANGED ui

\* if (waveform_pid > 0) { kill(waveform_pid, SIGCONT); resumed = true; }
\* if (resumed) { is_paused = false; return true; } return false;
ResumeDecoder ==
    /\ cpc = "resume_wf"
    /\ LET resumed == flag \/ waveform_pid > 0 IN
         /\ IF waveform_pid > 0
            THEN Signal(waveform_pid, "SIGCONT")
            ELSE sig' = NoSignal /\ UNCHANGED procs
         /\ is_paused' = IF resumed THEN FALSE ELSE is_paused
         /\ Return(IF resumed THEN "true" ELSE "false")
    /\ UNCHANGED <<decoding_active, decode_thread, samples_mutex, waveform_samples,
                   current_url, current_token, current_level, playback_pid,
                   waveform_pid, wk, call, ncalls, nexits, nfaults>>
    /\ UNCHANGED ui

StopSteps ==
    \/ StopInner
    \/ StopTermPlayer \/ StopPollPlayer \/ StopKillPlayer \/ StopWaitPlayer
    \/ StopTermDecoder \/ StopPollDecoder \/ StopKillDecoder \/ StopWaitDecoder
    \/ StopJoin \/ StopLock \/ StopClear

StartSteps == StartJoin \/ StartValidate \/ StartThread

PauseResume ==
    \/ pause_playback \/ PauseDecoder \/ PausePlayer
    \/ resume_playback \/ ResumeDecoder

(***************************************************************************)
(* PlexClient::play_track, as far as the decoder is concerned.  The name   *)
(* X-Plex-Token stands in a URL as the one character TokenName; "x" is any *)
(* character that is neither of the separators nor part of the name.       *)
(***************************************************************************)
TokenName == "T"
UrlChars == {"?", "&", TokenName, "x"}
MediaUrls == UNION {[1..n -> UrlChars] : n \in 1..MaxUrlLen}

\* std::string::find from position from: the first position of c, or 0 (npos)
Find(s, c, from) ==
    LET at == {i \in from..Len(s) : s[i] = c}
    IN  IF at = {} THEN 0 ELSE CHOOSE i \in at : \A j \in at : i <= j

\* std::string::erase(start, count), with positions counted from 1
Erase(s, start, count) ==
    SubSeq(s, 1, start - 1) \o SubSeq(s, start + count, Len(s))

\* the audio_url play_track computes from track.media_url
StripToken(media_url) ==
    LET token_pos == Find(media_url, TokenName, 1)
        found == Find(media_url, "&", token_pos)
        end == IF found = 0 THEN Len(media_url) + 1 ELSE found
    IN  IF token_pos = 0 THEN media_url
        ELSE IF token_pos > 1 /\ media_url[token_pos - 1] = "&"
             THEN Erase(media_url, token_pos - 1, end - (token_pos - 1))
        ELSE IF token_pos > 1 /\ media_url[token_pos - 1] = "?"
             THEN Erase(media_url, token_pos - 1, end - token_pos + 1)
        ELSE media_url

\* audio_decoder->start_decoding(audio_url, token)
play_track(media_url, token) == start_decoding(StripToken(media_url), token)

(***************************************************************************)
(* decode_thread_func, run by worker w.  Its locals: url and tok (the      *)
(* copies made on entry: url, headers), rd (the state of waveform_pipe[0]),*)
(* pipe (the process writing to that pipe), status (of the last waitpid),  *)
(* level (of the chunk being pushed), pcm (pcm_buffer, where a             *)
(* specification follows the samples), n (the number of chunks the thread  *)
(* has handed to process_pcm_data, where a specification counts them),     *)
(* and where a specification counts samples: k (the samples read so far),  *)
(* acc (pcm_buffer.size()), rest (the samples of the current read that     *)
(* are still to be copied to pcm_buffer).                                  *)
(***************************************************************************)
CallerVars == <<cpc, call, was_active, poll_i, flag, ret, sig, ncalls>>

At(w, l) == wk[w].pc = l
Goto(w, l) == wk' = [wk EXCEPT ![w].pc = l]
Finish(w) == wk' = [wk EXCEPT ![w] = Returned]

\* std::string headers = "X-Plex-Token: " + current_token + "\r\n";
\* std::string url = current_url;
\* if (url.empty() || current_token.empty()) { decoding_active = false; return; }
WorkerInit(w) ==
    /\ At(w, "init")
    /\ IF current_url = NoUrl \/ current_token = ""
       THEN /\ decoding_active' = FALSE
            /\ Finish(w)
       ELSE /\ wk' = [wk EXCEPT ![w].pc = "fork_pb", ![w].url = current_url,
                                ![w].tok = current_token]
            /\ UNCHANGED decoding_active
    /\ UNCHANGED <<decode_thread, samples_mutex, waveform_samples, current_url,
                   current_token, current_level, playback_pid, waveform_pid, is_paused,
                   procs, CallerVars, nexits, nfaults>>
    /\ UNCHANGED ui

\* playback_pid = fork();  (the child execs ffplay with the headers and url)
ForkPlayer(w) ==
    /\ At(w, "fork_pb")
    /\ CanFork
    /\ procs' = Fork(procs, "player", w, wk[w].url, wk[w].tok)
    /\ playback_pid' = Len(procs) + 1
    /\ Goto(w, "pipe")
    /\ UNCHANGED <<decoding_active, decode_thread, samples_mutex, waveform_samples,
                   current_url, current_token, current_level, waveform_pid, is_paused,
                   CallerVars, nexits, nfaults>>
    /\ UNCHANGED ui

\* if (playback_pid == -1) { decoding_active = false; return; }
ForkPlayerFails(w) ==
    /\ At(w, "fork_pb")
    /\ playback_pid' = NoPid
    /\ decoding_active' = FALSE
    /\ Finish(w)
    /\ Fault
    /\ UNCHANGED <<decode_thread, samples_mutex, waveform_samples, current_url,
                   current_token, current_level, waveform_pid, is_paused,
                   procs, CallerVars, nexits>>
    /\ UNCHANGED ui

\* if (pipe(waveform_pipe) == -1) { waitpid(playback_pid, nullptr, 0); return; }
OpenPipeFails(w) ==
    /\ At(w, "pipe")
    /\ Goto(w, "wait_pb_pipe")
    /\ Fault
    /\ UNCHANGED <<facade, procs, CallerVars, nexits>>
    /\ UNCHANGED ui

\* the blocking waitpid(playback_pid, nullptr, 0) after pipe() failed
WaitPlayerAfterPipe(w) ==
    /\ At(w, "wait_pb_pipe")
    /\ \E o \in WaitPid(playback_pid) :
         /\ o.r # 0
         /\ procs' = Reaped(procs, o.reap)
    /\ Finish(w)
    /\ UNCHANGED <<facade, CallerVars, nexits, nfaults>>
    /\ UNCHANGED ui

\* pipe(waveform_pipe) succeeds; waveform_pid = fork();  (the child execs
\* ffmpeg with the headers and url, its stdout the pipe); the parent closes
\* the write end and sets O_NONBLOCK on the read end
ForkDecoder(w) ==
    /\ At(w, "pipe")
    /\ CanFork
    /\ procs' = Fork(procs, "decoder", w, wk[w].url, wk[w].tok)
    /\ waveform_pid' = Len(procs) + 1
    /\ wk' = [wk EXCEPT ![w].pc = "loop", ![w].rd = "open", ![w].pipe = Len(procs) + 1]
    /\ UNCHANGED <<decoding_active, decode_thread, samples_mutex, waveform_samples,
                   current_url, current_token, current_level, playback_pid, is_paused,
                   CallerVars, nexits, nfaults>>
    /\ UNCHANGED ui

\* pipe(waveform_pipe) succeeds; if (waveform_pid == -1) {
\* close(waveform_pipe[0]); close(waveform_pipe[1]);
\* waitpid(playback_pid, nullptr, 0); decoding_active = false; return; }
ForkDecoderFails(w) ==
    /\ At(w, "pipe")
    /\ waveform_pid' = NoPid
    /\ wk' = [wk EXCEPT ![w].pc = "wait_pb_fork", ![w].rd = "closed"]
    /\ Fault
    /\ UNCHANGED <<decoding_active, decode_thread, samples_mutex, waveform_samples,
                   current_url, current_token, current_level, playback_pid, is_paused,
                   procs, CallerVars, nexits>>
    /\ UNCHANGED ui

WaitPlayerAfterFork(w) ==
    /\ At(w, "wait_pb_fork")
    /\ \E o \in WaitPid(playback_pid) :
         /\ o.r # 0
         /\ procs' = Reaped(procs, o.reap)
    /\ decoding_active' = FALSE
    /\ Finish(w)
    /\ UNCHANGED <<decode_thread, samples_mutex, waveform_samples, current_url,
                   current_token, current_level, playback_pid, waveform_pid, is_paused,
                   CallerVars, nexits, nfaults>>
    /\ UNCHANGED ui

\* while (decoding_active.load()) { if (!decoding_active.load()) break; ...
LoopTest(w) ==
    /\ At(w, "loop")
    /\ Goto(w, IF decoding_active THEN "read" ELSE "close")
    /\ UNCHANGED <<facade, procs, CallerVars, nexits, nfaults>>
    /\ UNCHANGED ui

\* read(waveform_pipe[0], ..) returns data.  The samples go to pcm_buffer;
\* either it stays below 4410 samples, or it reaches them and
\* process_pcm_data computes the level l of the chunk.
ReadData(w, l) ==
    /\ At(w, "read")
    /\ wk[w].pipe \in Pids /\ procs[wk[w].pipe].st = "run"
    /\ Len(waveform_samples) < MaxPush
    /\ \/ Goto(w, "loop")
       \/ wk' = [wk EXCEPT ![w].pc = "lock", ![w].level = l]
    /\ UNCHANGED <<facade, procs, CallerVars, nexits, nfaults>>
    /\ UNCHANGED ui

\* the level of the k-th chunk of a stream whose levels go 0.5, 1.0, 0.0, ...
LevelOf(k) == (k % 3) * (FullLevel \div 2)

\* read() returns data that completes the next chunk of such a stream: the
\* thread counts it and process_pcm_data computes its level
ReadChunk(w) ==
    /\ At(w, "read")
    /\ wk[w].pipe \in Pids /\ procs[wk[w].pipe].st = "run"
    /\ wk[w].n < MaxChunks
    /\ wk' = [wk EXCEPT ![w].pc = "lock", ![w].n = @ + 1, ![w].level = LevelOf(wk[w].n + 1)]
    /\ UNCHANGED <<facade, procs, CallerVars, nexits, nfaults>>
    /\ UNCHANGED ui

\* read() returns data that completes the chunk c, which goes to
\* process_pcm_data: if (pcm_samples.empty()) return; otherwise its level is
\* computed and pushed
ReadPcm(w, c) ==
    /\ At(w, "read")
    /\ wk[w].pipe \in Pids /\ procs[wk[w].pipe].st = "run"
    /\ Len(waveform_samples) < MaxPush
    /\ IF c = <<>> THEN Goto(w, "loop")
       ELSE wk' = [wk EXCEPT ![w].pc = "lock", ![w].pcm = c,
                             ![w].level = process_pcm_level(c)]
    /\ UNCHANGED <<facade, procs, CallerVars, nexits, nfaults>>
    /\ UNCHANGED ui

\* the numbers of samples one read() delivers: a third of a chunk, a full buffer
ReadSizes == {ChunkSize \div 3, ReadMax}

\* a read whose samples beyond the end of a chunk are lost
ReadSamplesDropsRest(w, s) ==
    /\ At(w, "read")
    /\ wk[w].pipe \in Pids /\ procs[wk[w].pipe].st = "run"
    /\ wk[w].k + s <= MaxSamples
    /\ IF wk[w].acc + s >= ChunkSize
       THEN wk' = [wk EXCEPT ![w].pc = "lock", ![w].k = @ + s, ![w].n = @ + 1,
                             ![w].acc = ChunkSize, ![w].level = FullLevel]
       ELSE wk' = [wk EXCEPT ![w].pc = "loop", ![w].k = @ + s, ![w].acc = @ + s]
    /\ UNCHANGED <<facade, procs, CallerVars, nexits, nfaults>>
    /\ UNCHANGED ui

\* read() returns s samples, which are counted: each goes to pcm_buffer, and
\* when pcm_buffer.size() >= 4410 the chunk goes to process_pcm_data; the
\* rest samples of the read follow once pcm_buffer has been cleared
ReadSamples(w, s) ==
    /\ At(w, "read")
    /\ wk[w].pipe \in Pids /\ procs[wk[w].pipe].st = "run"
    /\ wk[w].k + s <= MaxSamples
    /\ IF wk[w].acc + s >= ChunkSize
       THEN wk' = [wk EXCEPT ![w].pc = "lock", ![w].k = @ + s, ![w].n = @ + 1,
                             ![w].acc = ChunkSize,
                             ![w].rest = wk[w].acc + s - ChunkSize,
                             ![w].level = FullLevel]
       ELSE wk' = [wk EXCEPT ![w].pc = "loop", ![w].k = @ + s, ![w].acc = @ + s]
    /\ UNCHANGED <<facade, procs, CallerVars, nexits, nfaults>>
    /\ UNCHANGED ui

\* read() returns 0 (end of file) or -1 (EAGAIN, or another error), then
\* pid_t result = waitpid(waveform_pid, &status, WNOHANG);
\* if (result == waveform_pid) { ...restart... } sleep 50 or 100 ms; continue;
\* With waveform_pid == -1 and no child left, waitpid returns -1, the test
\* succeeds and status is read uninitialised: any value.
ReadNothing(w) ==
    /\ At(w, "read")
    /\ \E o \in WaitPid(waveform_pid) :
         /\ procs' = Reaped(procs, o.reap)
         /\ IF o.r = waveform_pid
            THEN \E s \in IF o.reap # 0 THEN {procs[o.reap].status}
                          ELSE {"exit0", "exit1", "signal", "none"} :
                   wk' = [wk EXCEPT ![w].pc = IF s = "none" THEN "loop" ELSE "restart",
                                    ![w].status = IF s = "none" THEN "none" ELSE s]
            ELSE Goto(w, "loop")
    /\ UNCHANGED <<facade, CallerVars, nexits, nfaults>>
    /\ UNCHANGED ui

\* in each of the three branches (exit code # 0, exit code 0, killed by a
\* signal): if (!decoding_active.load()) break; close(waveform_pipe[0]);
RestartTest(w) ==
    /\ At(w, "restart")
    /\ IF decoding_active
       THEN wk' = [wk EXCEPT ![w].pc = "re_fork", ![w].rd = "closed", ![w].pipe = 0]
       ELSE wk' = [wk EXCEPT ![w].pc = "close", ![w].status = "none"]
    /\ UNCHANGED <<facade, procs, CallerVars, nexits, nfaults>>
    /\ UNCHANGED ui

\* if (pipe(waveform_pipe) == -1) break;
RestartPipeFails(w) ==
    /\ At(w, "re_fork")
    /\ wk' = [wk EXCEPT ![w].pc = "close", ![w].status = "none"]
    /\ Fault
    /\ UNCHANGED <<facade, procs, CallerVars, nexits>>
    /\ UNCHANGED ui

\* a restart that forgets the Player: the new Decoder is spawned and the
\* pid of the Player is dropped
RestartDropsPlayer(w) ==
    /\ At(w, "re_fork")
    /\ CanFork
    /\ procs' = Fork(procs, "decoder", w, wk[w].url, wk[w].tok)
    /\ waveform_pid' = Len(procs) + 1
    /\ playback_pid' = NoPid
    /\ wk' = [wk EXCEPT ![w].pc = "loop", ![w].rd = "open", ![w].pipe = Len(procs) + 1,
                        ![w].status = "none"]
    /\ UNCHANGED <<decoding_active, decode_thread, samples_mutex, waveform_samples,
                   current_url, current_token, current_level, is_paused,
                   CallerVars, nexits, nfaults>>
    /\ UNCHANGED ui

\* pipe(waveform_pipe) succeeds; waveform_pid = fork();  (ffmpeg again, with
\* the thread's headers and url); close(waveform_pipe[1]); O_NONBLOCK; continue;
RestartFork(w) ==
    /\ At(w, "re_fork")
    /\ CanFork
    /\ procs' = Fork(procs, "decoder", w, wk[w].url, wk[w].tok)
    /\ waveform_pid' = Len(procs) + 1
    /\ wk' = [wk EXCEPT ![w].pc = "loop", ![w].rd = "open", ![w].pipe = Len(procs) + 1,
                        ![w].status = "none"]
    /\ UNCHANGED <<decoding_active, decode_thread, samples_mutex, waveform_samples,
                   current_url, current_token, current_level, playback_pid, is_paused,
                   CallerVars, nexits, nfaults>>
    /\ UNCHANGED ui

\* pipe(waveform_pipe) succeeds; if (waveform_pid == -1) {
\* close(waveform_pipe[0]); close(waveform_pipe[1]); break; }
RestartForkFails(w) ==
    /\ At(w, "re_fork")
    /\ waveform_pid' = NoPid
    /\ wk' = [wk EXCEPT ![w].pc = "close", ![w].rd = "closed", ![w].status = "none"]
    /\ Fault
    /\ UNCHANGED <<decoding_active, decode_thread, samples_mutex, waveform_samples,
                   current_url, current_token, current_level, playback_pid, is_paused,
                   procs, CallerVars, nexits>>
    /\ UNCHANGED ui

\* process_pcm_data: std::lock_guard<std::mutex> lock(samples_mutex);
\* waveform_samples.push_back(level);
PushBack(w) ==
    /\ At(w, "lock")
    /\ samples_mutex = Free
    /\ samples_mutex' = <<"worker", w>>
    /\ waveform_samples' = Append(waveform_samples, wk[w].level)
    /\ Goto(w, "trim")
    /\ UNCHANGED <<decoding_active, decode_thread, current_url, current_token,
                   current_level, playback_pid, waveform_pid, is_paused, procs, CallerVars, nexits, nfaults>>
    /\ UNCHANGED ui

\* a push after which the lock stays taken
PushKeepsLock(w) ==
    /\ At(w, "trim")
    /\ waveform_samples' = IF Len(waveform_samples) > MAX_SAMPLES
                           THEN Tail(waveform_samples) ELSE waveform_samples
    /\ current_level' = wk[w].level
    /\ wk' = [wk EXCEPT ![w].pc = "loop", ![w].level = 0, ![w].pcm = <<>>]
    /\ UNCHANGED <<decoding_active, decode_thread, samples_mutex, current_url, current_token,
                   playback_pid, waveform_pid, is_paused, procs, CallerVars, nexits, nfaults>>
    /\ UNCHANGED ui

\* a push that never evicts
PushNoTrim(w) ==
    /\ At(w, "trim")
    /\ current_level' = wk[w].level
    /\ samples_mutex' = Free
    /\ wk' = [wk EXCEPT ![w].pc = "loop", ![w].level = 0, ![w].pcm = <<>>]
    /\ UNCHANGED <<decoding_active, decode_thread, current_url, current_token,
                   waveform_samples, playback_pid, waveform_pid, is_paused, procs,
                   CallerVars, nexits, nfaults>>
    /\ UNCHANGED ui

\* a push that evicts the newest value instead of the oldest
PushTrimNewest(w) ==
    /\ At(w, "trim")
    /\ waveform_samples' = IF Len(waveform_samples) > MAX_SAMPLES
                           THEN SubSeq(waveform_samples, 1, Len(waveform_samples) - 1)
                           ELSE waveform_samples
    /\ current_level' = wk[w].level
    /\ samples_mutex' = Free
    /\ wk' = [wk EXCEPT ![w].pc = "loop", ![w].level = 0, ![w].pcm = <<>>]
    /\ UNCHANGED <<decoding_active, decode_thread, current_url, current_token,
                   playback_pid, waveform_pid, is_paused, procs, CallerVars, nexits, nfaults>>
    /\ UNCHANGED ui

\* if (waveform_samples.size() > MAX_SAMPLES) erase(begin());
\* current_level = level; and the lock is released
PushTrim(w) ==
    /\ At(w, "trim")
    /\ waveform_samples' = IF Len(waveform_samples) > MAX_SAMPLES
                           THEN Tail(waveform_samples) ELSE waveform_samples
    /\ current_level' = wk[w].level
    /\ samples_mutex' = Free
    /\ wk' = [wk EXCEPT ![w].pc = "loop", ![w].level = 0, ![w].pcm = <<>>,
                        ![w].acc = wk[w].rest, ![w].rest = 0]
    /\ UNCHANGED <<decoding_active, decode_thread, current_url, current_token,
                   playback_pid, waveform_pid, is_paused, procs, CallerVars, nexits, nfaults>>
    /\ UNCHANGED ui

\* after the loop: close(waveform_pipe[0]); waitpid(waveform_pid, nullptr, WNOHANG);
CloseAndReapDecoder(w) ==
    /\ At(w, "close")
    /\ \E o \in WaitPid(waveform_pid) : procs' = Reaped(procs, o.reap)
    /\ wk' = [wk EXCEPT ![w].pc = "reap_pb", ![w].rd = "closed", ![w].pipe = 0]
    /\ UNCHANGED <<facade, CallerVars, nexits, nfaults>>
    /\ UNCHANGED ui

\* waitpid(playback_pid, nullptr, WNOHANG); and the thread returns
ReapPlayer(w) ==
    /\ At(w, "reap_pb")
    /\ \E o \in WaitPid(playback_pid) : procs' = Reaped(procs, o.reap)
    /\ Finish(w)
    /\ UNCHANGED <<facade, CallerVars, nexits, nfaults>>
    /\ UNCHANGED ui

\* the steps of decode_thread_func in which no pipe() and no fork() fails
WorkerRuns(w) ==
    \/ WorkerInit(w) \/ ForkPlayer(w) \/ ForkDecoder(w)
    \/ LoopTest(w) \/ (\E l \in Levels : ReadData(w, l)) \/ ReadNothing(w)
    \/ RestartTest(w) \/ RestartFork(w)
    \/ PushBack(w) \/ PushTrim(w)
    \/ CloseAndReapDecoder(w) \/ ReapPlayer(w)

\* the steps in which one fails, and those that follow the failure
WorkerFails(w) ==
    \/ ForkPlayerFails(w)
    \/ OpenPipeFails(w) \/ WaitPlayerAfterPipe(w)
    \/ ForkDecoderFails(w) \/ WaitPlayerAfterFork(w)
    \/ RestartPipeFails(w) \/ RestartForkFails(w)

decode_thread_func(w) == WorkerRuns(w) \/ WorkerFails(w)

(***************************************************************************)
(* The child processes: a running Player or Decoder may exit at any time   *)
(* (end of stream, error, a signal from outside).                          *)
(***************************************************************************)
ExitStatuses(k) == IF k = "decoder" THEN {"exit0", "exit1", "signal"} ELSE {"exit0"}

ProcessExits(p, s) ==
    /\ p \in Pids
    /\ procs[p].st = "run"
    /\ s \in ExitStatuses(procs[p].kind)
    /\ nexits > 0
    /\ nexits' = nexits - 1
    /\ procs' = Exited(procs, p, s)
    /\ UNCHANGED <<facade, wk, CallerVars, nfaults>>
    /\ UNCHANGED ui

Next ==
    \/ stop_decoding
    \/ \E u \in Urls, t \in Tokens : start_decoding(u, t)
    \/ StopSteps
    \/ StartSteps
    \/ StartThreadFails
    \/ PauseResume
    \/ \E w \in Workers : decode_thread_func(w)
    \/ \E p \in 1..MaxProcs, s \in {"exit0", "exit1", "signal"} : ProcessExits(p, s)

Spec == Init /\ [][Next]_vars

NextSessions ==
    \/ stop_decoding
    \/ \E u \in Urls \ {NoUrl}, t \in Tokens \ {""} : start_decoding(u, t)
    \/ StopSteps
    \/ StartSteps
    \/ \E w \in Workers : WorkerRuns(w)

SpecSessions == InitSessions /\ [][NextSessions]_vars

(***************************************************************************)
(* Properties of sessions.                                                 *)
(***************************************************************************)
\* the caller is between two calls and the last one was op
Returned_(op) == cpc = "idle" /\ call.op = op

\* the calls made so far are exactly two start() calls, each of which
\* created a worker, and the second has returned
TwoStartsReturned ==
    /\ Returned_("start")
    /\ ncalls = MaxCalls - 2
    /\ wk[1].pc # "new" /\ wk[2].pc # "new"

\* worker w has spawned its Player and its Decoder and is in its read loop
Spawned(w) == wk[w].pc \in {"loop", "read", "lock", "trim"}

\* C1: after two start() calls in succession, once the second has returned
\* and its worker has finished spawning, exactly one Player and exactly one
\* Decoder are alive, and no process of the first session is alive.
C1_OneSessionAfterRestart ==
    (TwoStartsReturned /\ Spawned(2)) =>
        /\ Cardinality(LiveOf("player")) = 1
        /\ Cardinality(LiveOf("decoder")) = 1
        /\ \A p \in Pids : Alive(p) => procs[p].sess = 2

\* C2: once stop() has returned, no Player and no Decoder is alive (none
\* that was spawned before the return, none spawned after it).
C2_NoProcessAfterStop ==
    Returned_("stop") => \A p \in Pids : ~Alive(p)

\* C3: a step that spawns a process of the second session is taken only
\* when no process of the first session is alive, the first worker is no
\* longer attached to decode_thread, and the buffer is empty.
C3_PreviousSessionRetiredFirst ==
    [][(Len(procs') > Len(procs) /\ procs'[Len(procs')].sess = 2) =>
          /\ \A p \in Pids : Alive(p) => procs[p].sess # 1
          /\ decode_thread # 1
          /\ waveform_samples = <<>>]_vars

\* C4: between the return of stop() and the next start(), a getter that
\* obtains the mutex returns level 0 and count zeros.
C4_ZeroAfterStop ==
    (Returned_("stop") /\ samples_mutex = Free) =>
        /\ get_current_level = 0
        /\ \A n \in 0..(MaxPush + 1) : get_waveform_samples(n) = Zeros(n)

\* the caller is inside stop_decoding
InStop == cpc \in {"stop_xchg", "stop_pb", "stop_pb_poll", "stop_pb_kill", "stop_pb_wait",
                   "stop_wf", "stop_wf_poll", "stop_wf_kill", "stop_wf_wait",
                   "stop_join", "stop_lock", "stop_clear"}

\* C5: stop() never waits without bound: it polls a child at most MaxPolls
\* times, a blocking waitpid is only made for a pid that names no running
\* child (so it returns at once), and the mutex it needs is free or held
\* by a worker that is about to release it.
C5_StopReturns ==
    /\ poll_i <= MaxPolls
    /\ cpc = "stop_pb_wait" => ~Alive(playback_pid)
    /\ cpc = "stop_wf_wait" => ~Alive(waveform_pid)
    /\ (cpc = "stop_lock" /\ samples_mutex # Free) =>
           \E w \in Workers : samples_mutex = <<"worker", w>> /\ At(w, "trim")

\* stop_decoding was called directly and found no active session
IdleStop == InStop /\ cpc # "stop_xchg" /\ ~call.inner /\ ~was_active

\* what stop() is said to leave behind
Stopped ==
    /\ ~is_decoding
    /\ ~is_paused
    /\ playback_pid = NoPid /\ waveform_pid = NoPid
    /\ waveform_samples = <<>>
    /\ get_current_level = 0

\* C6: a stop() that finds no active session goes straight to clearing the
\* buffer, sending no signal and waiting for no process and no thread, and
\* the state it returns in is: inactive, not paused, no pid held, empty
\* buffer, level 0.
C6_IdleStopClean ==
    /\ [](IdleStop => (cpc \in {"stop_lock", "stop_clear"} /\ sig = NoSignal))
    /\ [][(IdleStop /\ cpc' = "idle") => Stopped']_vars

\* a step of the caller's thread
CallerStep == <<cpc, poll_i>>' # <<cpc, poll_i>>

\* the caller is inside start_decoding, called with an empty url or token
InInvalidStart == cpc # "idle" /\ call.op = "start" /\ (call.url = NoUrl \/ call.tok = "")

\* the step in which start_decoding returns
StartReturns == cpc # "idle" /\ call.op = "start" /\ cpc' = "idle"

\* C7: start() with an empty url or token changes nothing of the facade,
\* signals and reaps no process, and returns false, also when a session
\* is live.
C7_InvalidStartNoEffect ==
    [][(InInvalidStart /\ CallerStep) =>
          /\ facade' = facade
          /\ procs' = procs
          /\ sig' = NoSignal
          /\ cpc' = "idle" => ret' = "false"]_vars

SpawnFailed(w) == wk[w].pc \in {"wait_pb_pipe", "wait_pb_fork"}

\* C9: once the pipe or the Decoder could not be created, the Player of
\* that session is no longer running, and the worker leaves the session
\* inactive with no pid held.
C9_PlayerRolledBack ==
    /\ [](\A w \in Workers : SpawnFailed(w) =>
             \A p \in Pids : (procs[p].kind = "player" /\ procs[p].sess = w) => ~Alive(p))
    /\ [][\A w \in Workers : (SpawnFailed(w) /\ wk'[w].pc = "done") =>
             (~is_decoding' /\ playback_pid' = NoPid /\ waveform_pid' = NoPid)]_vars

(***************************************************************************)
(* Restarts of the Decoder: sessions that are started and never stopped by *)
(* the caller, in which processes exit on their own, no pipe() and no      *)
(* fork() fails, and every thread keeps running.                           *)
(***************************************************************************)
InitRestart ==
    /\ Constructed
    /\ ViewConstructed
    /\ wk = [w \in 1..MaxStarts |-> NoWorker]
    /\ ncalls = MaxStarts
    /\ nexits = MaxExits
    /\ nfaults = MaxFaults

NextRestart ==
    \/ \E u \in Urls \ {NoUrl}, t \in Tokens \ {""} : start_decoding(u, t)
    \/ StopSteps
    \/ StartSteps
    \/ \E w \in Workers : WorkerRuns(w)
    \/ \E p \in 1..MaxProcs, s \in {"exit0", "exit1", "signal"} : ProcessExits(p, s)

SpecRestart ==
    /\ InitRestart
    /\ [][NextRestart]_vars
    /\ WF_vars(StopSteps \/ StartSteps)
    /\ \A w \in 1..MaxStarts : WF_vars(WorkerRuns(w))

\* the Decoder that feeds worker w has exited while w serves the active session
DecoderExited(w) ==
    /\ is_decoding /\ decode_thread = w
    /\ wk[w].pc \in {"loop", "read"}
    /\ wk[w].pipe \in Zombies

\* worker w reads from a running Decoder of its own, given the url and token of the session
Resumed(w) ==
    /\ wk[w].pc \in {"loop", "read", "lock", "trim"}
    /\ Alive(wk[w].pipe)
    /\ procs[wk[w].pipe].kind = "decoder"
    /\ procs[wk[w].pipe].url = current_url /\ procs[wk[w].pipe].tok = current_token

\* C10: when the Decoder of the active session has exited (whatever its
\* status), its worker eventually reads from a new Decoder with the same
\* url and token, unless the session has been stopped or replaced or no
\* process can be created any more; and no step of a worker clears
\* decoding_active.
C10_DecoderRestarted ==
    /\ \A w \in 1..MaxStarts :
          DecoderExited(w) ~>
             (Resumed(w) \/ ~is_decoding \/ decode_thread # w \/ ~CanFork)
    /\ [][(is_decoding /\ wk' # wk) => is_decoding']_vars

(***************************************************************************)
(* Restart, pause and resume.                                              *)
(***************************************************************************)
\* a step of worker w that belongs to a restart of the Decoder: the waitpid
\* that finds the Decoder gone, the test of the flag, the pipe() and fork()
RestartStep(w) ==
    /\ wk'[w] # wk[w]
    /\ wk[w].pc \in {"restart", "re_fork"} \/ wk'[w].pc = "restart"

Players(ps) == {p \in 1..Len(ps) : ps[p].kind = "player"}

\* C11: a step of a restart of the Decoder sends no signal to a Player and
\* reaps none (every Player is as it was), and leaves playback_pid,
\* decoding_active and is_paused as they were.
C11_RestartLeavesPlayer ==
    [][\A w \in Workers : RestartStep(w) =>
          /\ \A p \in Players(procs) : procs'[p] = procs[p]
          /\ playback_pid' = playback_pid
          /\ decoding_active' = decoding_active
          /\ is_paused' = is_paused
          /\ sig' = sig]_vars

\* worker w has restarted its Decoder and reads from the new one, and the
\* Player it spawned is still running under the pid the facade holds
C11_RestartedBesidePlayer ==
    \E w \in Workers :
       /\ wk[w].pc = "loop" /\ Alive(wk[w].pipe)
       /\ \E d \in Pids : /\ d < wk[w].pipe
                           /\ procs[d].kind = "decoder" /\ procs[d].sess = w
                           /\ procs[d].st = "reaped"
       /\ Alive(playback_pid) /\ procs[playback_pid].sess = w
       /\ is_decoding

\* a step of the caller inside pause_playback or resume_playback, the entry included
PauseResumeStep ==
    \/ cpc = "idle" /\ ncalls' # ncalls /\ call'.op \in {"pause", "resume"}
    \/ cpc \in {"pause_wf", "pause_pb", "resume_wf"} /\ CallerStep

\* the worker of the session has spawned both processes and is in its loop
SessionRunning ==
    /\ decode_thread \in Workers
    /\ wk[decode_thread].pc \in {"loop", "read", "restart", "re_fork", "lock", "trim"}

\* C12: no step of pause() or resume() changes the buffer, the level or
\* decoding_active; and on a running session, from the entry of pause() to
\* the return of the resume() that follows it, no step of any thread
\* clears decoding_active.
C12_PauseResumeKeepSession ==
    [][/\ PauseResumeStep =>
            /\ waveform_samples' = waveform_samples
            /\ current_level' = current_level
            /\ decoding_active' = decoding_active
       /\ (/\ call.op \in {"pause", "resume"} /\ call'.op \in {"pause", "resume"}
           /\ is_decoding /\ SessionRunning) => is_decoding']_vars

\* resume() is running on a paused, active session whose buffer holds a level
C12_ResumingPausedSession ==
    /\ cpc = "resume_wf" /\ flag /\ is_paused
    /\ is_decoding /\ SessionRunning
    /\ waveform_samples # <<>> /\ current_level # 0

\* C13: pause() returns false exactly when no Player and no Decoder process
\* exists; and with no active session, a step of pause() or resume() sends
\* no signal, changes nothing of the facade or of the processes, and the
\* call returns false.
C13_PauseResumeNeedSession ==
    [][/\ (PauseResumeStep /\ cpc' = "idle" /\ call'.op = "pause") =>
            (ret' = "false" <=> \A p \in Pids : ~IsChild(p))
       /\ (PauseResumeStep /\ ~is_decoding) =>
            /\ sig' = NoSignal
            /\ facade' = facade
            /\ procs' = procs
            /\ cpc' = "idle" => ret' = "false"]_vars

\* C14: a step of resume() on a session that is not paused sends no signal
\* and changes nothing of the facade or of the processes.
C14_ResumeUnpausedNoOp ==
    [][(PauseResumeStep /\ call'.op = "resume" /\ ~is_paused) =>
          /\ sig' = NoSignal
          /\ facade' = facade
          /\ procs' = procs]_vars

(***************************************************************************)
(* The rolling buffer: one session, stopped or not, whose worker pushes    *)
(* the levels of a long stream (more than MAX_SAMPLES of them).  Nothing   *)
(* fails and no process exits on its own.                                  *)
(***************************************************************************)
InitBuffer ==
    /\ Constructed
    /\ ViewConstructed
    /\ wk = [w \in 1..1 |-> NoWorker]
    /\ ncalls = MaxCalls
    /\ nexits = 0
    /\ nfaults = 0

WorkerPushes(w) ==
    \/ WorkerInit(w) \/ ForkPlayer(w) \/ ForkDecoder(w)
    \/ LoopTest(w) \/ ReadChunk(w) \/ ReadNothing(w)
    \/ RestartTest(w)
    \/ PushBack(w) \/ PushTrim(w)
    \/ CloseAndReapDecoder(w) \/ ReapPlayer(w)

NextBuffer ==
    \/ stop_decoding
    \/ \E u \in Urls \ {NoUrl}, t \in Tokens \ {""} : start_decoding(u, t)
    \/ StartSteps
    \/ StopTermPlayer \/ StopPollPlayer \/ StopKillPlayer
    \/ StopTermDecoder \/ StopPollDecoder \/ StopKillDecoder
    \/ StopJoin \/ StopLock \/ StopClear
    \/ \E w \in Workers : WorkerPushes(w)

SpecBuffer == InitBuffer /\ [][NextBuffer]_vars

\* C15: whenever no worker is between its push_back and the end of
\* process_pcm_data (so at every moment another thread can look at the
\* buffer), the buffer holds at most MAX_SAMPLES values.
C15_BufferBounded ==
    samples_mutex[1] # "worker" => Len(waveform_samples) <= MAX_SAMPLES

\* stop() is about to clear a buffer that is full and has evicted values
C15_FullBufferAtStop ==
    /\ cpc = "stop_lock" /\ samples_mutex = Free
    /\ Len(waveform_samples) = MAX_SAMPLES
    /\ \E w \in Workers : wk[w].n > MAX_SAMPLES

\* the last MAX_SAMPLES of the first n levels of the stream, in order
LastPushed(n) ==
    [i \in 1..Min(n, MAX_SAMPLES) |-> LevelOf(n - Min(n, MAX_SAMPLES) + i)]

\* the worker of the active session has pushed every chunk it has counted
Pushed(w) == is_decoding /\ decode_thread = w /\ wk[w].pc \in {"loop", "read"}

\* C16: once the worker of a session has pushed n > MAX_SAMPLES levels, the
\* buffer holds exactly MAX_SAMPLES values: the last MAX_SAMPLES levels
\* pushed, oldest first.  (For n <= MAX_SAMPLES it holds all n of them.)
C16_LastPushedKept ==
    \A w \in Workers : Pushed(w) =>
        /\ waveform_samples = LastPushed(wk[w].n)
        /\ wk[w].n > MAX_SAMPLES => Len(waveform_samples) = MAX_SAMPLES

\* two values have been evicted within the session
C16_TwoEvicted ==
    \E w \in Workers : Pushed(w) /\ wk[w].n = MAX_SAMPLES + 2

\* int count = 100, the default argument
DefaultCount == 100
\* get_waveform_samples(200), the monitor's call
MonitorCount == 200

Counts == (0..MaxCount) \cup {DefaultCount, MonitorCount}

\* C17: get_waveform_samples(count) returns exactly count values: the most
\* recent min(count, length) values of the buffer in buffer order, with
\* zeros before them; count zeros when the buffer is empty.
C17_CountValuesLeftPadded ==
    \A count \in Counts :
        LET result == get_waveform_samples(count)
            len == Len(waveform_samples)
            pad == count - Min(count, len)
        IN  /\ Len(result) = count
            /\ \A i \in 1..count :
                  result[i] = IF i <= pad THEN 0 ELSE waveform_samples[len - count + i]

\* a buffer of two non-zero values, asked for fewer and for more than it has
C17_ShorterAndLonger ==
    /\ waveform_samples = <<LevelOf(1), LevelOf(2)>>
    /\ get_waveform_samples(1) = <<LevelOf(2)>>
    /\ get_waveform_samples(3) = <<0, LevelOf(1), LevelOf(2)>>

(***************************************************************************)
(* The level extractor: one session whose worker reads chunks of PCM       *)
(* samples, computes their levels and pushes them.                         *)
(***************************************************************************)
WorkerExtracts(w) ==
    \/ WorkerInit(w) \/ ForkPlayer(w) \/ ForkDecoder(w)
    \/ LoopTest(w) \/ (\E c \in Chunks \cup {<<>>} : ReadPcm(w, c)) \/ ReadNothing(w)
    \/ RestartTest(w)
    \/ PushBack(w) \/ PushTrim(w)
    \/ CloseAndReapDecoder(w) \/ ReapPlayer(w)

NextLevel ==
    \/ stop_decoding
    \/ \E u \in Urls \ {NoUrl}, t \in Tokens \ {""} : start_decoding(u, t)
    \/ StartSteps
    \/ StopTermPlayer \/ StopPollPlayer \/ StopKillPlayer
    \/ StopTermDecoder \/ StopPollDecoder \/ StopKillDecoder
    \/ StopJoin \/ StopLock \/ StopClear
    \/ \E w \in Workers : WorkerExtracts(w)

SpecLevel == InitBuffer /\ [][NextLevel]_vars

\* C18: get_current_level() and every value get_waveform_samples() returns
\* lie between 0.0 and 1.0, whatever PCM samples were read.
C18_LevelsInUnitRange ==
    /\ get_current_level \in 0..FullLevel
    /\ \A count \in Counts : \A i \in 1..count :
          get_waveform_samples(count)[i] \in 0..FullLevel

\* a level strictly between the ends of the range has been pushed
C18_MidLevelPushed ==
    /\ get_current_level \in 1..(FullLevel - 1)
    /\ get_waveform_samples(1) = <<get_current_level>>

\* worker w is in process_pcm_data, past the push_back of the level of its chunk
Pushing(w) == At(w, "trim") /\ wk[w].pcm # <<>>

AllIn(pcm_samples, S) == \A i \in 1..Len(pcm_samples) : pcm_samples[i] \in S

\* C19: for a non-empty chunk of zeros the level computed is exactly 0.0,
\* and this is the value pushed.
C19_SilenceIsZero ==
    \A w \in Workers : Pushing(w) /\ AllIn(wk[w].pcm, {0}) =>
        /\ wk[w].level = 0
        /\ waveform_samples[Len(waveform_samples)] = 0

\* a chunk of ChunkSize zeros has been pushed
C19_SilentChunkPushed ==
    \E w \in Workers :
        Pushing(w) /\ AllIn(wk[w].pcm, {0}) /\ Len(wk[w].pcm) = ChunkSize

\* C20: for a non-empty chunk whose samples are all 32767 or -32768 the
\* level computed is exactly 1.0 (2 * rms is at least 1.0 and is cut to it).
C20_FullScaleIsOne ==
    \A w \in Workers : Pushing(w) /\ AllIn(wk[w].pcm, {INT16_MIN, INT16_MAX}) =>
        /\ wk[w].level = FullLevel
        /\ waveform_samples[Len(waveform_samples)] = FullLevel

\* a chunk of ChunkSize samples, all 32767, has been pushed
C20_FullScaleChunkPushed ==
    \E w \in Workers :
        Pushing(w) /\ AllIn(wk[w].pcm, {INT16_MAX}) /\ Len(wk[w].pcm) = ChunkSize

(***************************************************************************)
(* Playing tracks: the facade is started with the URL play_track makes of  *)
(* a media URL, and the worker hands it to the two programs.               *)
(***************************************************************************)
WorkerSpawns(w) ==
    \/ WorkerInit(w) \/ ForkPlayer(w) \/ ForkDecoder(w)
    \/ LoopTest(w) \/ ReadNothing(w) \/ RestartTest(w)
    \/ CloseAndReapDecoder(w) \/ ReapPlayer(w)

NextUrl ==
    \/ \E m \in MediaUrls, t \in Tokens \ {""} : play_track(m, t)
    \/ StartSteps
    \/ StopInner
    \/ StopTermPlayer \/ StopPollPlayer \/ StopKillPlayer
    \/ StopTermDecoder \/ StopPollDecoder \/ StopKillDecoder
    \/ StopJoin \/ StopLock \/ StopClear
    \/ \E w \in Workers : WorkerSpawns(w)

SpecUrl == InitBuffer /\ [][NextUrl]_vars

\* u has a query parameter X-Plex-Token: the name right after a ? or a &
HasTokenParam(u) ==
    \E i \in 2..Len(u) : u[i] = TokenName /\ u[i - 1] \in {"?", "&"}

\* C21: the URL the decoder is started with, and the URL each Player and
\* Decoder program is run with, has no X-Plex-Token query parameter.
C21_NoTokenInUrl ==
    /\ ~HasTokenParam(current_url)
    /\ \A p \in Pids : ~HasTokenParam(procs[p].url)

(***************************************************************************)
(* Locking.                                                                *)
(***************************************************************************)
\* the places of stop_decoding, pause_playback and resume_playback from
\* which the caller's next step is a kill() or a waitpid()
CallerSyscalls ==
    {"stop_pb", "stop_pb_poll", "stop_pb_kill", "stop_pb_wait",
     "stop_wf", "stop_wf_poll", "stop_wf_kill", "stop_wf_wait",
     "pause_wf", "pause_pb", "resume_wf"}

\* the places of decode_thread_func from which the worker's next step is a
\* fork(), a pipe(), a read(), a close() or a waitpid()
WorkerSyscalls ==
    {"fork_pb", "pipe", "wait_pb_pipe", "wait_pb_fork", "read", "restart", "re_fork",
     "close", "reap_pb"}

CallerActs == cpc \in CallerSyscalls /\ CallerStep
WorkerActs(w) == wk[w].pc \in WorkerSyscalls /\ wk'[w] # wk[w]

\* C22: a thread that spawns a process, signals a child or waits on a child
\* does not hold samples_mutex while it does so.
C22_NoLockAcrossSyscall ==
    [][/\ CallerActs => samples_mutex[1] # "caller"
       /\ \A w \in Workers : WorkerActs(w) => samples_mutex # <<"worker", w>>]_vars

\* stop_decoding holds the lock while the worker is about to fork the Player
C22_LockedWhileWorkerForks ==
    /\ cpc = "stop_clear" /\ samples_mutex[1] = "caller"
    /\ \E w \in Workers : At(w, "fork_pb")

\* the buffer and the level as a complete push or a complete clear leaves them
Complete ==
    \/ waveform_samples = <<>> /\ current_level = 0
    \/ /\ Len(waveform_samples) \in 1..MAX_SAMPLES
       /\ current_level = waveform_samples[Len(waveform_samples)]

\* C23: the buffer and the current level are written only by a thread that
\* holds samples_mutex, and whenever the mutex is free (so whenever a getter
\* can take it and copy) they are as a complete push or clear left them.
C23_SnapshotsComplete ==
    /\ [](samples_mutex = Free => Complete)
    /\ [][<<waveform_samples, current_level>>' # <<waveform_samples, current_level>>
            => (samples_mutex # Free \/ samples_mutex' # Free)]_vars

\* the lock is free between two pushes while the worker waits to push again
\* and stop_decoding waits to clear
C23_ContendedBetweenPushes ==
    /\ samples_mutex = Free /\ Len(waveform_samples) >= 2
    /\ cpc = "stop_lock"
    /\ \E w \in Workers : At(w, "lock")

(***************************************************************************)
(* The shutdown made by stop_decoding.                                     *)
(***************************************************************************)
\* C24: stop() sends SIGTERM to the Player only when the Decoder has been
\* sent SIGTERM and its exit awaited, so when no Decoder of the facade is
\* left alive.
C24_DecoderStoppedFirst ==
    [][(InStop /\ playback_pid > 0 /\ sig' = <<playback_pid, "SIGTERM">>) =>
          (waveform_pid <= 0 \/ ~Alive(waveform_pid))]_vars

\* a poll of stop_decoding that leaves its loop before the 20th turn
PollBreaks ==
    /\ cpc \in {"stop_pb_poll", "stop_wf_poll"} /\ cpc' \notin {"stop_pb_poll", "stop_wf_poll"}
    /\ poll_i' < MaxPolls

\* C25: stop() sends SIGKILL to a child only if it has sent SIGTERM to that
\* child and MaxPolls polls in a row then found it alive; a poll that finds
\* the child exited or already reaped clears its pid (and so no SIGKILL
\* follows).
C25_KillAfterTermAndPolls ==
    [][/\ \A p \in Pids : (InStop /\ sig' = <<p, "SIGKILL">>) =>
              (call.termed = p /\ poll_i = MaxPolls)
       /\ (PollBreaks /\ cpc = "stop_pb_poll") => playback_pid' = NoPid
       /\ (PollBreaks /\ cpc = "stop_wf_poll") => waveform_pid' = NoPid]_vars

\* the worker thread the facade holds the handle of has returned
WorkerExited == decode_thread \in Workers /\ wk[decode_thread].pc = "done"

\* the step of stop_decoding that deals with the thread handle
JoinStep == cpc = "stop_join" /\ cpc' # cpc

\* C26: stop() detaches the worker thread only if the thread has not
\* returned by the end of the bounded wait; a thread that has returned by
\* then is joined.
C26_DetachOnlyIfRunning ==
    [][JoinStep => /\ call'.thread = "detached" => ~WorkerExited
                   /\ WorkerExited => call'.thread = "joined"]_vars

(***************************************************************************)
(* The worker and the active flag.                                         *)
(***************************************************************************)
\* worker w forks a process
Spawns(w) == wk'[w] # wk[w] /\ Len(procs') > Len(procs)

\* stop_decoding has cleared the flag, which has stayed cleared
FlagCleared == ~decoding_active /\ call.op = "stop"

\* C27: while the active flag is cleared by stop(), the worker thread of the
\* session spawns no process, neither the Player, the Decoder nor a
\* restarted Decoder.
C27_NoSpawnAfterStop ==
    [][\A w \in Workers : (FlagCleared /\ Running(w)) => ~Spawns(w)]_vars

\* stop_decoding has cleared the flag of the session whose worker w is in
\* its reader loop
StoppedInLoop(w) ==
    /\ InStop /\ cpc # "stop_xchg" /\ was_active
    /\ decode_thread = w
    /\ wk[w].pc \in {"loop", "read", "lock", "trim", "restart", "re_fork"}

\* C28: once stop() has cleared the active flag of a session whose worker
\* is in the reader loop, that worker eventually returns from
\* decode_thread_func, even if start() sets the flag again.
C28_StoppedWorkerReturns ==
    \A w \in 1..MaxStarts : StoppedInLoop(w) ~> (wk[w].pc = "done")

\* the worker threads that have started and not returned
RunningWorkers == {w \in Workers : Running(w)}

\* C29: at most one worker thread runs at a time (so at most one executes
\* the reader loop or writes the buffer, the level and the pid fields): the
\* worker of a new session does not run beside the worker of an earlier one.
C29_OneWorkerAtATime == Cardinality(RunningWorkers) <= 1

(***************************************************************************)
(* Pausing twice.                                                          *)
(***************************************************************************)
\* pause_playback is called
PauseCalled == cpc = "idle" /\ ncalls' # ncalls /\ call'.op = "pause"

\* C30: pause() on a paused session returns true at once: it sends no
\* signal and changes neither the facade, the processes nor the workers.
C30_PauseWhenPausedNoOp ==
    [][(PauseCalled /\ is_paused) =>
          /\ cpc' = "idle" /\ ret' = "true"
          /\ sig' = NoSignal
          /\ facade' = facade /\ procs' = procs /\ wk' = wk]_vars

\* the third call, a pause, has returned true without a signal, the Player
\* being suspended by the pause before it
C30_PausedTwice ==
    /\ Returned_("pause") /\ ret = "true" /\ sig = NoSignal
    /\ ncalls = MaxCalls - 3
    /\ is_paused
    /\ playback_pid \in Pids /\ procs[playback_pid].st = "stop"

(***************************************************************************)
(* The order of a pause.                                                   *)
(***************************************************************************)
\* C31: pause() first deals with the Decoder (SIGSTOP to waveform_pid if
\* there is one, and to no other pid), then with the Player (SIGSTOP to
\* playback_pid if there is one) and returns; is_paused becomes true in
\* that last step if and only if one of the two signals was sent.
C31_PauseDecoderThenPlayer ==
    [][/\ (cpc = "pause_wf" /\ CallerStep) =>
            /\ sig' = IF waveform_pid > 0 THEN <<waveform_pid, "SIGSTOP">> ELSE NoSignal
            /\ flag' = (waveform_pid > 0)
            /\ cpc' = "pause_pb" /\ is_paused' = is_paused
       /\ (cpc = "pause_pb" /\ CallerStep) =>
            /\ sig' = IF playback_pid > 0 THEN <<playback_pid, "SIGSTOP">> ELSE NoSignal
            /\ cpc' = "idle"
            /\ is_paused' = (flag \/ playback_pid > 0)
            /\ ret' = IF is_paused' THEN "true" ELSE "false"]_vars

\* a pause has suspended the Decoder and then the Player of a running session
C31_BothSuspended ==
    /\ Returned_("pause") /\ ret = "true" /\ is_paused
    /\ sig = <<playback_pid, "SIGSTOP">>
    /\ playback_pid \in Pids /\ procs[playback_pid].st = "stop"
    /\ waveform_pid \in Pids /\ procs[waveform_pid].st = "stop"

(***************************************************************************)
(* The accumulator: one session whose worker counts the samples it reads,  *)
(* in reads of different sizes, while its Decoder may exit and be          *)
(* restarted and the session may be stopped.                               *)
(***************************************************************************)
InitAccum ==
    /\ Constructed
    /\ ViewConstructed
    /\ wk = [w \in 1..1 |-> NoWorker]
    /\ ncalls = MaxCalls
    /\ nexits = MaxExits
    /\ nfaults = 0

WorkerCounts(w) ==
    \/ WorkerInit(w) \/ ForkPlayer(w) \/ ForkDecoder(w)
    \/ LoopTest(w) \/ (\E s \in ReadSizes : ReadSamples(w, s)) \/ ReadNothing(w)
    \/ RestartTest(w) \/ RestartFork(w)
    \/ PushBack(w) \/ PushTrim(w)
    \/ CloseAndReapDecoder(w) \/ ReapPlayer(w)

NextAccum ==
    \/ stop_decoding
    \/ \E u \in Urls \ {NoUrl}, t \in Tokens \ {""} : start_decoding(u, t)
    \/ StartSteps
    \/ StopTermPlayer \/ StopPollPlayer \/ StopKillPlayer
    \/ StopTermDecoder \/ StopPollDecoder \/ StopKillDecoder
    \/ StopJoin \/ StopLock \/ StopClear
    \/ \E w \in Workers : WorkerCounts(w)
    \/ \E p \in 1..MaxProcs : ProcessExits(p, "exit0")

SpecAccum == InitAccum /\ [][NextAccum]_vars

\* worker w is in process_pcm_data with a full accumulator
InPush(w) == wk[w].pc \in {"lock", "trim"}

\* C32: whenever the worker is not inside a push, the accumulator holds
\* fewer than ChunkSize samples and, k samples having been read, k \div
\* ChunkSize levels have been handed over and the accumulator holds the
\* other k % ChunkSize samples; inside a push the accumulator holds exactly
\* ChunkSize samples.  Until a stop() clears it, the buffer holds the levels
\* pushed.
C32_OneLevelPerChunk ==
    \A w \in Workers : Running(w) =>
        /\ ~InPush(w) => /\ wk[w].acc < ChunkSize /\ wk[w].rest = 0
                         /\ wk[w].n = wk[w].k \div ChunkSize
                         /\ wk[w].acc = wk[w].k % ChunkSize
        /\ InPush(w) => /\ wk[w].acc = ChunkSize /\ wk[w].rest < ChunkSize
                        /\ wk[w].k = (wk[w].n - 1) * ChunkSize + wk[w].acc + wk[w].rest
        /\ call.op = "start" =>
              Len(waveform_samples) = IF wk[w].pc = "lock" THEN wk[w].n - 1 ELSE wk[w].n

\* two levels have been pushed by reads that did not end on the chunk's
\* end, with a restart of the Decoder in between
C32_TwoChunksAcrossRestart ==
    \E w \in Workers :
        /\ wk[w].pc = "read" /\ wk[w].n = 2 /\ wk[w].acc > 0
        /\ wk[w].pipe > 2

\* ---- the view's rolling buffer (Waveform) ----

\* widths the view is built or resized with
MaxWidth == 2

\* levels handed to the view; one of them is above 1.0
ViewLevels == {0, FullLevel, 2 * FullLevel}

Max(a, b) == IF a > b THEN a ELSE b

\* std::clamp(level, 0.0f, 1.0f)
clamp(level) == Min(Max(level, 0), FullLevel)

\* while (samples.size() > n) samples.pop_front()
pop_front_to(s, n) == IF Len(s) > n THEN SubSeq(s, Len(s) - n + 1, Len(s)) ELSE s

\* a call of the UI thread on the view: the decoder is left alone
ViewCall(op) ==
    /\ cpc = "idle"
    /\ ncalls > 0
    /\ ncalls' = ncalls - 1
    /\ call' = [NoCall EXCEPT !.op = op]
    /\ UNCHANGED <<facade, procs, wk, cpc, was_active, poll_i, flag, ret, sig,
                   nexits, nfaults, is_playing, ppc, timeline>>

add_sample(level) ==
    /\ ViewCall("add_sample")
    /\ samples' = pop_front_to(Append(samples, clamp(level)), 2 * width)
    /\ width' = width

set_size(w) ==
    /\ ViewCall("set_size")
    /\ width' = w
    /\ samples' = pop_front_to(samples, w)

clear ==
    /\ ViewCall("clear")
    /\ samples' = Zeros(width)
    /\ width' = width

\* Waveform(width, height) with any width; the decoder as constructed
InitWaveform ==
    /\ Constructed
    /\ wk = [w \in 1..1 |-> NoWorker]
    /\ ncalls = MaxCalls
    /\ nexits = 0
    /\ nfaults = 0
    /\ NoTimeline
    /\ width \in 1..MaxWidth
    /\ samples = Zeros(width)
    /\ is_playing = FALSE
    /\ ppc = "idle"

NextWaveform ==
    \/ \E level \in ViewLevels : add_sample(level)
    \/ \E w \in 1..MaxWidth : set_size(w)
    \/ clear
    \/ stop_decoding
    \/ \E u \in Urls \ {NoUrl}, t \in Tokens \ {""} : start_decoding(u, t)
    \/ StartSteps
    \/ StopTermPlayer \/ StopPollPlayer \/ StopKillPlayer
    \/ StopTermDecoder \/ StopPollDecoder \/ StopKillDecoder
    \/ StopJoin \/ StopLock \/ StopClear
    \/ \E w \in Workers : WorkerPushes(w)

SpecWaveform == InitWaveform /\ [][NextWaveform]_vars

\* C33: clearing a rolling buffer leaves exactly capacity zeros in it: MAX_SAMPLES
\* zeros in the decoder's buffer after stop(), 2 * width zeros in the view's buffer
\* after Waveform::clear()
C33_ClearToCapacityZeros ==
    /\ Returned_("stop") => waveform_samples = Zeros(MAX_SAMPLES)
    /\ Returned_("clear") => samples = Zeros(2 * width)

\* ---- PlexClient: the calls of the UI thread that reach the decoder ----

\* the UI thread enters a function of the client; it has not yet called the decoder
ClientEnter(op, n) ==
    /\ ppc = "idle" /\ cpc = "idle"
    /\ ncalls >= n
    /\ ppc' = op
    /\ call' = [NoCall EXCEPT !.op = "client"]
    /\ UNCHANGED <<facade, procs, wk, cpc, was_active, poll_i, flag, ret, sig,
                   ncalls, nexits, nfaults, samples, width, is_playing, timeline>>

\* tracks: at most MaxTracks in a list, the id of a track is its place in the list
MaxTracks == 2

\* durations in ms: shorter than the 100 ms margin, and longer
Durations == {50, 300}

Tracks == [id : 1..MaxTracks, duration_ms : Durations]

\* Track::media_url, Track::id are not empty for a track of the library
TrackUrl(track) == IF track.id = 1 THEN <<"a">> ELSE <<"b">>

\* the client's function goes on after the decoder's function op has returned:
\* under playback_mutex it stores is_playing, position, playback_start_time and
\* current_track, and moves to position next
ClientStore(at, op, next, playing, pos, start, track) ==
    /\ ppc = at /\ cpc = "idle" /\ call.op = op
    /\ is_playing' = playing
    /\ position' = pos
    /\ playback_start_time' = start
    /\ current_track' = track
    /\ ppc' = next
    /\ call' = [NoCall EXCEPT !.op = IF next = "idle" THEN at ELSE "client"]
    /\ UNCHANGED <<facade, procs, wk, cpc, was_active, poll_i, flag, ret, sig,
                   ncalls, nexits, nfaults, samples, width,
                   playback_state, browse_tracks, now>>

\* PlexClient::play_track(track), entered at position at and returning to back:
\* stop_audio_capture(); current_track = track; is_playing = true; position = 0;
\* playback_start_time = now; start_decoding, and is_playing = false again if
\* that returns false
PlayTrack(at, starting, back, track) ==
    \/ ppc = at /\ call.op = "client" /\ stop_decoding
    \/ ClientStore(at, "stop", starting, TRUE, 0, now, track)
    \/ ppc = starting /\ call.op = "client" /\ start_decoding(TrackUrl(current_track), "t")
    \/ ClientStore(starting, "start", back, ret = "true", position, playback_start_time,
                   current_track)

PlexPlayTrack ==
    \/ ClientEnter("play_track", 2)
    \/ \E track \in Tracks : PlayTrack("play_track", "play_start", "idle", track)

\* PlexClient::pause: audio_decoder->pause_playback(); is_playing = false;
PlexPause ==
    \/ ClientEnter("pause", 1)
    \/ ppc = "pause" /\ call.op = "client" /\ pause_playback
    \/ ClientStore("pause", "pause", "idle", FALSE, position, playback_start_time,
                   current_track)

\* PlexClient::resume: audio_decoder->resume_playback(); is_playing = true; the
\* start time is moved so that the position goes on from where it was
PlexResume ==
    \/ ClientEnter("resume", 1)
    \/ ppc = "resume" /\ call.op = "client" /\ resume_playback
    \/ ClientStore("resume", "resume", "idle", TRUE, position,
                   IF playback_start_time = 0 THEN now ELSE now - position, current_track)

\* PlexClient::stop: stop_audio_capture(); is_playing = false; position = 0;
\* playback_start_time = time_point();
StopPlayback(at, back) ==
    \/ ppc = at /\ call.op = "client" /\ stop_decoding
    \/ ClientStore(at, "stop", back, FALSE, 0, 0, current_track)

PlexStop ==
    \/ ClientEnter("stop", 1)
    \/ StopPlayback("stop", "idle")

NextClient ==
    \/ PlexPlayTrack \/ PlexPause \/ PlexResume \/ PlexStop
    \/ StartSteps
    \/ StopTermPlayer \/ StopPollPlayer \/ StopKillPlayer
    \/ StopTermDecoder \/ StopPollDecoder \/ StopKillDecoder
    \/ StopJoin \/ StopLock \/ StopClear
    \/ PauseDecoder \/ PausePlayer \/ ResumeDecoder
    \/ \E w \in Workers : WorkerPushes(w)

SpecClient == InitBuffer /\ [][NextClient]_vars

\* C38: from the return of PlexClient::pause() to the next call on the client, a
\* playback state that reports not playing means the Player of the session is
\* suspended or absent, also when pause() came right after play_track(), before
\* the worker has spawned the Player
C38_NotPlayingMeansSuspended ==
    (ppc = "idle" /\ cpc = "idle" /\ call.op = "pause" /\ ~is_playing) =>
        \A p \in LiveOf("player") : procs[p].sess = decode_thread => procs[p].st = "stop"

\* C34: no signal is sent to a pid that waitpid has already reaped: a positive
\* playback_pid or waveform_pid that stop, pause or resume signals names a child
\* of this process that has not been waited for, in every interleaving
C34_SignalsOnlyToChildren ==
    [][(CallerStep /\ sig' # NoSignal) => IsChild(sig'[1])]_vars

\* C35: whenever is_decoding() is true, the worker of the session runs or is about
\* to run: a worker that gives up by itself (Player, pipe or Decoder not created,
\* at the start or in a restart) has cleared the active flag before it returns
C35_ActiveMeansWorker ==
    is_decoding =>
        \/ cpc = "start_thread"
        \/ decode_thread \in Workers /\ wk[decode_thread].pc # "done"

\* C36: while the paused flag is set and no call is under way, no Decoder of the
\* session runs un-suspended; a Decoder that a restart spawns during the pause is
\* not left running
C36_PausedDecoderSuspended ==
    (cpc = "idle" /\ is_paused) =>
        \A p \in LiveOf("decoder") : procs[p].sess = decode_thread => procs[p].st = "stop"

\* C37: the worker closes the read end of the pipe exactly once on every path: the
\* close before a restart and the close after the loop each find it open, also when
\* pipe() or fork() fails in a restart, and the worker returns with no read end open
C37_ReadEndClosedOnce ==
    [][\A w \in Workers :
          /\ (At(w, "restart") /\ wk'[w].pc = "re_fork") => wk[w].rd = "open"
          /\ (At(w, "close") /\ wk'[w].pc = "reap_pb") => wk[w].rd = "open"
          /\ (Running(w) /\ wk'[w].pc = "done") => wk[w].rd # "open"]_vars

\* ---- PlayerView::update: the end of a track and the advance to the next ----

\* the clock stands still at MaxTime; a frame comes Spacings ms after the last
MaxTime == 500
Spacings == {40, 150}

\* uint32_t, kept as its two 16-bit halves <<high, low>>
Half == 65536
U32(n) == <<(n \div Half) % Half, n % Half>>

\* a - b in uint32_t: the difference modulo 2^32
Sub32(a, b) ==
    LET borrow == IF a[2] < b[2] THEN 1 ELSE 0
    IN  <<(a[1] - b[1] - borrow + Half) % Half, (a[2] - b[2] + Half) % Half>>

\* a >= b in uint32_t
Geq32(a, b) == a[1] > b[1] \/ (a[1] = b[1] /\ a[2] >= b[2])

\* the margin before the end of a track, in ms
EndMargin == 100

\* playback_state.position_ms >= playback_state.current_track.duration_ms - 100
NearEnd(position_ms, duration_ms) ==
    Geq32(U32(position_ms), Sub32(U32(duration_ms), U32(EndMargin)))

\* the same test with the threshold kept at 0 for a track shorter than the margin
NearEndNoWrap(position_ms, duration_ms) ==
    position_ms >= Max(0, duration_ms - EndMargin)

\* the place of the view's current track in browse_tracks, 0 if it is not there
current_idx ==
    IF \E i \in 1..Len(browse_tracks) : browse_tracks[i].id = playback_state.current_track.id
    THEN CHOOSE i \in 1..Len(browse_tracks) :
            /\ browse_tracks[i].id = playback_state.current_track.id
            /\ \A j \in 1..(i - 1) : browse_tracks[j].id # playback_state.current_track.id
    ELSE 0

\* a step of update() that calls nothing: it moves to position next and sets the
\* client's flag, position and start time, the view's copy, its buffer and the clock
UpdateStep(next, playing, pos, start, state, buf, time) ==
    /\ cpc = "idle"
    /\ ppc' = next
    /\ is_playing' = playing
    /\ position' = pos
    /\ playback_start_time' = start
    /\ playback_state' = state
    /\ samples' = buf
    /\ now' = time
    /\ call' = [NoCall EXCEPT !.op = IF next = "idle" THEN "update" ELSE "client"]
    /\ UNCHANGED <<facade, procs, wk, cpc, was_active, poll_i, flag, ret, sig,
                   ncalls, nexits, nfaults, width, current_track, browse_tracks>>

\* a track list is loaded into the view (select_item on an album or a playlist)
LoadTracks(tracks) ==
    /\ ppc = "idle" /\ cpc = "idle"
    /\ browse_tracks = <<>>
    /\ browse_tracks' = tracks
    /\ UNCHANGED <<facade, procs, wk, CallerVars, nexits, nfaults, samples, width,
                   is_playing, ppc, position, playback_start_time, current_track,
                   playback_state, now>>

\* the calls one run of the view may make on the decoder: a play_track by the
\* user, one by the advance, and a stop
AdvanceCalls == 2 * MaxStarts + 1

\* select_item on a track: start_play_with_lyrics -> client.play_track
SelectTrack == browse_tracks # <<>> /\ ClientEnter("play_track", AdvanceCalls)

\* and play_track goes on with the track at selected_index
PlaySelected ==
    \E i \in 1..Len(browse_tracks) :
        PlayTrack("play_track", "play_start", "idle", browse_tracks[i])

\* update(), first part, dt ms after the last frame:
\* playback_state = client.get_playback_state(); then the test for the end
UpdateBegin(dt) ==
    /\ ppc = "idle"
    /\ UpdateStep(IF is_playing /\ current_track.duration_ms > 0
                     /\ NearEnd(position, current_track.duration_ms)
                  THEN "advance" ELSE "levels",
                  is_playing, position, playback_start_time,
                  [playing |-> is_playing, position_ms |-> position,
                   current_track |-> current_track],
                  samples, Min(now + dt, MaxTime))

\* advance_to_next_track(): play the track after the current one, or stop
advance_to_next_track ==
    \/ /\ ppc = "advance"
       /\ UpdateStep(IF browse_tracks = <<>> THEN "levels"
                     ELSE IF current_idx >= 1 /\ current_idx + 1 <= Len(browse_tracks)
                          THEN "adv_play" ELSE "adv_stop",
                     is_playing, position, playback_start_time, playback_state,
                     samples, now)
    \/ /\ current_idx >= 1 /\ current_idx + 1 <= Len(browse_tracks)
       /\ PlayTrack("adv_play", "adv_start", "levels", browse_tracks[current_idx + 1])
    \/ StopPlayback("adv_stop", "levels")

\* Waveform::add_samples_batch(new_samples), as a function of the buffer
add_samples_batch(new_samples) ==
    pop_front_to(samples \o [i \in 1..Len(new_samples) |-> clamp(new_samples[i])], 2 * width)

\* pimpl->position > duration_ms, seen by get_audio_levels at the time now
PastEnd == now - playback_start_time > current_track.duration_ms

\* update(), last part: if (playback_state.playing) { cached_audio_levels =
\* client.get_audio_levels(); waveform->add_samples_batch(...); }
\* get_audio_levels sets the position from the clock; past the duration it
\* clamps it, clears is_playing and stops the decoder
get_audio_levels ==
    \/ /\ ppc = "levels"
       /\ ~playback_state.playing
       /\ UpdateStep("idle", is_playing, position, playback_start_time, playback_state,
                     samples, now)
    \/ /\ ppc = "levels"
       /\ playback_state.playing
       /\ is_decoding
       /\ IF ~is_playing
          THEN UpdateStep("idle", is_playing, position, playback_start_time, playback_state,
                          add_samples_batch(get_waveform_samples(MonitorCount)), now)
          ELSE IF playback_start_time = 0
          THEN UpdateStep("idle", TRUE, 0, now, playback_state,
                          add_samples_batch(get_waveform_samples(MonitorCount)), now)
          ELSE IF PastEnd
          THEN UpdateStep("lv_stop", FALSE, current_track.duration_ms, playback_start_time,
                          playback_state,
                          add_samples_batch(get_waveform_samples(MonitorCount)), now)
          ELSE UpdateStep("idle", TRUE, now - playback_start_time, playback_start_time,
                          playback_state,
                          add_samples_batch(get_waveform_samples(MonitorCount)), now)
    \/ /\ ppc = "levels"
       /\ playback_state.playing
       /\ ~is_decoding
       /\ UpdateStep("idle", is_playing, position,
                     IF is_playing THEN 0 ELSE playback_start_time, playback_state,
                     samples, now)
    \/ ppc = "lv_stop" /\ call.op = "client" /\ stop_decoding
    \/ /\ ppc = "lv_stop" /\ call.op = "stop"
       /\ UpdateStep("idle", is_playing, position, playback_start_time, playback_state,
                     samples, now)

\* what the UI thread does once it is in update() or in a call on the client
UiThread ==
    \/ PlaySelected
    \/ \E dt \in Spacings : UpdateBegin(dt)
    \/ advance_to_next_track
    \/ get_audio_levels
    \/ StartSteps
    \/ StopTermPlayer \/ StopPollPlayer \/ StopKillPlayer
    \/ StopTermDecoder \/ StopPollDecoder \/ StopKillDecoder
    \/ StopJoin \/ StopLock \/ StopClear

InitAdvance ==
    /\ Constructed
    /\ ViewConstructed
    /\ wk = [w \in 1..1 |-> NoWorker]
    /\ ncalls = AdvanceCalls
    /\ nexits = 0
    /\ nfaults = 0

NextAdvance ==
    \/ \E tracks \in UNION {[1..n -> Durations] : n \in 1..MaxTracks} :
          LoadTracks([i \in DOMAIN tracks |-> [id |-> i, duration_ms |-> tracks[i]]])
    \/ SelectTrack
    \/ UiThread
    \/ \E w \in Workers : WorkerSpawns(w)

\* the UI loop goes on calling update(), and a call it has begun goes on
SpecAdvance == InitAdvance /\ [][NextAdvance]_vars /\ WF_vars(UiThread)

\* the track at place i of a list that goes on after it has played to its end
\* margin, and the track after it is playing
EndedWithNext(i) ==
    /\ i < Len(browse_tracks)
    /\ current_track = browse_tracks[i]
    /\ NearEndNoWrap(position, current_track.duration_ms)

NextStarted(i) ==
    /\ i < Len(browse_tracks)
    /\ current_track = browse_tracks[i + 1]
    /\ is_playing

\* C39: when the playing track reaches its end and the list has a track after it,
\* playback of that track is eventually started, however the frames of the UI are
\* spaced; and the view stops playback as "list finished" only when there is no
\* track after the current one
C39_NextTrackEventuallyStarted ==
    /\ \A i \in 1..(MaxTracks - 1) : EndedWithNext(i) ~> NextStarted(i)
    /\ [][ppc' = "adv_stop" => ~(current_idx >= 1 /\ current_idx + 1 <= Len(browse_tracks))]_vars

\* C40: for every track with duration_ms > 0, also one shorter than 100 ms, the
\* test position_ms >= duration_ms - 100 of update() comes out as with the
\* threshold max(0, duration_ms - 100): no wraparound of the unsigned difference
C40_EndTestDoesNotWrap ==
    [][(ppc = "idle" /\ ppc' \in {"advance", "levels"}
          /\ is_playing /\ current_track.duration_ms > 0) =>
         (ppc' = "advance" <=> NearEndNoWrap(position, current_track.duration_ms))]_vars

====
